---- MODULE Spec2Model ----
(***************************************************************************)
(* Preview pipeline of the GoldenLayout editor: the handler registry       *)
(* (src/src/handlers/index.js and the two handlers), the service worker    *)
(* that serves the virtual files (src/public/worker.js) and the render     *)
(* orchestration of src/src/main.js (edit handler, preview selector,       *)
(* typst rendering and viewer zoom).                                       *)
(*                                                                         *)
(* Strings are sequences of tokens.  "." and "/" are the separator tokens, *)
(* every other token is a word that contains neither of them, and no       *)
(* concatenation of two words spells another word, so two token sequences  *)
(* are equal exactly when the strings they spell are equal.                *)
(***************************************************************************)
EXTENDS Integers, Sequences, FiniteSets, TLC

VARIABLES
    \* --- handler registry (handlers/index.js) ---
    windowAce,            \* typeof window.ace !== 'undefined'
    aceModeInitialized,   \* handler._aceModeInitialized, per handler
    aceInitCalls,         \* calls of handler.initializeAceMode, per handler
    lazyInitCalls,        \* those of them made by getAceModeForFile
    modeScripts,          \* <script> elements appended by initializeAceMode
    regCall,              \* the last registry call and what it returned
    \* --- service worker (public/worker.js) ---
    files,                \* the worker's Map: file name -> content
    sent,                 \* history: file name -> content of its last updateFile
    swOut,                \* what the worker's last listener run produced
    \* --- page (src/main.js) ---
    projectFiles,         \* file id -> [name, type, content]
    activePreviewFileId,  \* the file the preview shows
    activeTab,            \* the file of the active editor tab
    openTabs,             \* the files that have a tab in the editor stack
    swActive,             \* serviceWorkerRegistration && .active
    pendingPushes,        \* updatePreviewFiles calls polling for the worker
    startupTimer,         \* the constructor's setTimeout(updatePreviewMode, 200)
    previewMode,          \* which preview container is displayed
    typstCompiler,        \* the variable typstCompiler is set
    typstReady,           \* the compiler and renderer finished init()
    isTypstInitializing,
    jobs,                 \* render pipelines waiting at an await, oldest first
    zoomLevel,            \* previewComponentInstance.zoomLevel
    output,               \* content of outputDiv: "empty", "svg", "failed"
    svgScale,             \* scale() of the svg's transform, in thousandths
    textAlign,            \* outputDiv.style.textAlign
    zoomChosen,           \* history: the user set the zoom since the previewed file last changed
    diagnostics,          \* diagnosticsDiv.textContent
    userEvents,           \* user events handled so far
    ev                    \* history: the last event and what it started

regVars == <<windowAce, aceModeInitialized, aceInitCalls, lazyInitCalls,
             modeScripts, regCall>>
swVars  == <<files, sent, swOut>>
appVars == <<projectFiles, activePreviewFileId, activeTab, openTabs, swActive,
             pendingPushes, startupTimer, previewMode, typstCompiler,
             typstReady, isTypstInitializing, jobs, zoomLevel, output,
             svgScale, textAlign, zoomChosen, diagnostics, userEvents, ev>>

-----------------------------------------------------------------------------
(* String helpers: String.prototype.toLowerCase, split(sep).pop(), indexOf *)


LowerToken(t) ==
    CASE t = "HTM" -> "htm"
      [] t = "TYP" -> "typ"
      [] t = "JS"  -> "js"
      [] OTHER     -> t

toLowerCase(s) == [i \in 1..Len(s) |-> LowerToken(s[i])]

\* the largest index of token sep in s, 0 when s has none
LastIndexOf(s, sep) ==
    IF \E i \in 1..Len(s) : s[i] = sep
    THEN CHOOSE i \in 1..Len(s) :
            /\ s[i] = sep
            /\ \A j \in (i+1)..Len(s) : s[j] # sep
    ELSE 0

\* s.split(sep).pop(): what follows the last sep, the whole of s without one
SplitPop(s, sep) == SubSeq(s, LastIndexOf(s, sep) + 1, Len(s))

\* fileName.split('.').pop().toLowerCase()
ExtensionOf(fileName) == toLowerCase(SplitPop(fileName, "."))

-----------------------------------------------------------------------------
(* Handlers and the registry                                               *)

WebExtensions ==
    {<<"html">>, <<"htm">>, <<"css">>, <<"js">>, <<"javascript">>, <<"json">>}

WebCanHandle(fileName) == ExtensionOf(fileName) \in WebExtensions

TypstCanHandle(fileName) == ExtensionOf(fileName) = <<"typ">>

\* const handlers = [webHandler, typstHandler]
handlers == <<"web", "typst">>

Handlers == {handlers[i] : i \in 1..Len(handlers)}

canHandle(h, fileName) ==
    IF h = "web" THEN WebCanHandle(fileName) ELSE TypstCanHandle(fileName)

\* the first handler of the list that claims the name, webHandler without one
getHandlerForFile(fileName) ==
    IF \E i \in 1..Len(handlers) : canHandle(handlers[i], fileName)
    THEN handlers[CHOOSE i \in 1..Len(handlers) :
                    /\ canHandle(handlers[i], fileName)
                    /\ \A j \in 1..(i-1) : ~canHandle(handlers[j], fileName)]
    ELSE "web"

\* typeof handler.initializeAceMode === 'function': only the typst handler
HasInitializeAceMode(h) == h = "typst"

WebGetAceMode(fileName) ==
    LET e == ExtensionOf(fileName) IN
    CASE e \in {<<"html">>, <<"htm">>}      -> "html"
      [] e = <<"css">>                      -> "css"
      [] e \in {<<"js">>, <<"javascript">>} -> "javascript"
      [] e = <<"json">>                     -> "json"
      [] OTHER                              -> "text"

getAceMode(h, fileName) == IF h = "typst" THEN "typst" ELSE WebGetAceMode(fileName)

\* typst initializeAceMode: returns early without window.ace, else appends
\* the <script> of the custom mode; it has no path that throws
ScriptsAfterInit(n) == IF windowAce THEN n + 1 ELSE n

-----------------------------------------------------------------------------
(* Bounds and input sets of the registry                                   *)

MaxNameLen == 3
MaxInitAll == 2

NameTokens ==
    {".", "a", "html", "HTM", "css", "js", "javascript", "json", "typ", "TYP", "txt"}

SeqsUpTo(S, n) == UNION {[1..k -> S] : k \in 1..n}

\* the file names handler resolution is tried on (never the empty string)
RegNames == SeqsUpTo(NameTokens, MaxNameLen)

\* the file names the editor asks an Ace mode for
AceNames ==
    {<<"a", ".", "typ">>, <<"a", ".", "TYP">>, <<"typ">>, <<"a", ".", "js">>,
     <<"a", ".", "css">>, <<"a", ".", "html">>, <<"a", ".", "json">>,
     <<"a", ".", "txt">>, <<"a">>, <<"a", ".", "typ", ".", "txt">>}

NoCall == [op |-> "none"]

RegInit ==
    /\ windowAce \in BOOLEAN
    /\ aceModeInitialized = [h \in Handlers |-> FALSE]
    /\ aceInitCalls = [h \in Handlers |-> 0]
    /\ lazyInitCalls = [h \in Handlers |-> 0]
    /\ modeScripts = 0
    /\ regCall = NoCall

CallGetHandlerForFile(fileName) ==
    /\ regCall' = [op |-> "getHandlerForFile", fileName |-> fileName,
                   result |-> getHandlerForFile(fileName)]
    /\ UNCHANGED <<windowAce, aceModeInitialized, aceInitCalls, lazyInitCalls,
                   modeScripts>>

\* does this call of getAceModeForFile run handler.initializeAceMode()?
LazyInitNeeded(h) == HasInitializeAceMode(h) /\ ~aceModeInitialized[h]

\* handler._aceModeInitialized after the lazy initialization of h
\* variant: the lazy initialisation does not record that it ran
FlagsAfterLazyInitUnrecorded(h) == aceModeInitialized

FlagsAfterLazyInit(h) == [aceModeInitialized EXCEPT ![h] = TRUE]

CallGetAceModeForFile(fileName) ==
    LET h == getHandlerForFile(fileName) IN
    /\ aceInitCalls[h] < MaxInitAll + 2
    /\ IF LazyInitNeeded(h)
       THEN /\ aceInitCalls' = [aceInitCalls EXCEPT ![h] = @ + 1]
            /\ lazyInitCalls' = [lazyInitCalls EXCEPT ![h] = @ + 1]
            /\ modeScripts' = ScriptsAfterInit(modeScripts)
            /\ aceModeInitialized' = FlagsAfterLazyInit(h)
       ELSE UNCHANGED <<aceInitCalls, lazyInitCalls, modeScripts, aceModeInitialized>>
    /\ regCall' = [op |-> "getAceModeForFile", fileName |-> fileName,
                   ranInit |-> LazyInitNeeded(h),
                   result |-> getAceMode(h, fileName)]
    /\ UNCHANGED windowAce

\* handlers.forEach: initializeAceMode of every handler that has one; the
\* _aceModeInitialized flag is neither read nor written here
CallInitializeAllAceModes ==
    /\ \A h \in Handlers : aceInitCalls[h] < MaxInitAll
    /\ aceInitCalls' = [h \in Handlers |->
                          IF HasInitializeAceMode(h) THEN aceInitCalls[h] + 1
                          ELSE aceInitCalls[h]]
    /\ modeScripts' = ScriptsAfterInit(modeScripts)
    /\ regCall' = [op |-> "initializeAllAceModes"]
    /\ UNCHANGED <<windowAce, aceModeInitialized, lazyInitCalls>>

-----------------------------------------------------------------------------
(* Service worker                                                          *)

MaxTableSize == 2

IndexHtml == <<"index", ".", "html">>
PreviewPrefix == <<"/", "preview", "/">>

\* file names the main thread can send: non-empty (create and rename trim
\* the name and refuse an empty one)
WorkerNames ==
    { IndexHtml,
      <<"a", ".", "css">>,
      <<"a", ".", "JS">>,
      <<"data", ".", "json">>,
      <<"my", " ", "file", ".", "css">>,
      <<"d", ".", "x", "/", "css">>,
      <<"d", "/", "preview", "/", "a", ".", "HTM">> }

Undefined == "undefined"
WorkerContents == {"", "c1", "c2"}

\* content || ''
ContentOrEmpty(content) == IF content = Undefined THEN "" ELSE content

\* variant: the extension is compared without lower-casing it
getMimeTypeCaseSensitive(fileName) ==
    LET extension == SplitPop(fileName, ".") IN
    CASE extension = <<"js">>                  -> "application/javascript"
      [] extension = <<"css">>                 -> "text/css"
      [] extension \in {<<"html">>, <<"htm">>} -> "text/html"
      [] extension = <<"json">>                -> "application/json"
      [] OTHER                                 -> "text/plain"

getMimeType(fileName) ==
    LET extension == ExtensionOf(fileName) IN
    CASE extension = <<"js">>                  -> "application/javascript"
      [] extension = <<"css">>                 -> "text/css"
      [] extension \in {<<"html">>, <<"htm">>} -> "text/html"
      [] extension = <<"json">>                -> "application/json"
      [] extension = <<"txt">>                 -> "text/plain"
      [] OTHER                                 -> "text/plain"

\* new URL(event.request.url).pathname: the path ends where the query starts
\* and a space in it is percent-encoded
PercentEncode(t) == IF t = " " THEN "%20" ELSE t

BeforeQuery(url) ==
    IF \E i \in 1..Len(url) : url[i] = "?"
    THEN SubSeq(url, 1, (CHOOSE i \in 1..Len(url) :
                            /\ url[i] = "?"
                            /\ \A j \in 1..(i-1) : url[j] # "?") - 1)
    ELSE url

Pathname(url) ==
    [i \in 1..Len(BeforeQuery(url)) |-> PercentEncode(BeforeQuery(url)[i])]

\* pathname.includes('/preview/')
IsPrefixAt(s, i) ==
    /\ i + 2 <= Len(s)
    /\ SubSeq(s, i, i + 2) = PreviewPrefix

IncludesPreview(pathname) == \E i \in 1..Len(pathname) : IsPrefixAt(pathname, i)

\* pathname.indexOf('/preview/'), 1-based
IndexOfPreview(pathname) ==
    CHOOSE i \in 1..Len(pathname) :
        /\ IsPrefixAt(pathname, i)
        /\ \A j \in 1..(i-1) : ~IsPrefixAt(pathname, j)

\* pathname.substring(pathname.indexOf('/preview/') + 9)
FilePathOf(pathname) == SubSeq(pathname, IndexOfPreview(pathname) + 3, Len(pathname))

Served(name, contentType) ==
    [kind |-> "response", served |-> name, body |-> files[name],
     contentType |-> contentType, cacheControl |-> "no-cache"]

\* variant: every request under the preview prefix is answered, an absent
\* file with an empty body
FetchResultAlwaysAnswers(pathname) ==
    IF ~IncludesPreview(pathname) THEN [kind |-> "passthrough"]
    ELSE LET filePath == FilePathOf(pathname) IN
         [kind |-> "response", served |-> filePath,
          body |-> IF filePath \in DOMAIN files THEN files[filePath] ELSE "",
          contentType |-> getMimeType(SplitPop(filePath, "/")),
          cacheControl |-> "no-cache"]

\* the fetch listener: the response of event.respondWith, or no response
FetchResult(pathname) ==
    IF ~IncludesPreview(pathname) THEN [kind |-> "passthrough"]
    ELSE LET filePath == FilePathOf(pathname) IN
         IF filePath \in {IndexHtml, <<>>} /\ IndexHtml \in DOMAIN files
         THEN Served(IndexHtml, "text/html")
         ELSE IF filePath \in DOMAIN files
         THEN Served(filePath, getMimeType(SplitPop(filePath, "/")))
         ELSE [kind |-> "passthrough"]

\* files.set(fileName, content || '')
TableAfterUpdate(fileName, content) ==
    [n \in DOMAIN files \cup {fileName} |->
        IF n = fileName THEN ContentOrEmpty(content) ELSE files[n]]

SwInit ==
    /\ files = <<>>
    /\ sent = <<>>
    /\ swOut = [kind |-> "none"]

\* message listener, case 'updateFile'
OnUpdateFile(fileName, content) ==
    /\ fileName \in DOMAIN files \/ Cardinality(DOMAIN files) < MaxTableSize
    /\ files' = TableAfterUpdate(fileName, content)
    /\ sent' = [n \in DOMAIN sent \cup {fileName} |->
                    IF n = fileName THEN content ELSE sent[n]]
    /\ swOut' = [kind |-> "fileUpdated", fileName |-> fileName]

\* message listener, any other message type: the switch has no case for it
OnOtherMessage ==
    /\ swOut' = [kind |-> "ignored"]
    /\ UNCHANGED <<files, sent>>

OnFetch(url) ==
    /\ swOut' = FetchResult(Pathname(url)) @@
                    [url |-> url, pathname |-> Pathname(url)]
    /\ UNCHANGED <<files, sent>>

\* deployment directories of the page and the request paths tried
Bases == {<<>>, <<"/", "app">>}

FetchUrls ==
    {b \o PreviewPrefix \o n : b \in Bases, n \in WorkerNames \cup {<<>>}}
    \cup {<<"/">> \o n : n \in {IndexHtml, <<"a", ".", "css">>}}
    \cup {<<"/", "preview">>, <<"/", "preview", ".", "html">>, <<"/">>,
          PreviewPrefix \o IndexHtml \o <<"?", "t">>}

-----------------------------------------------------------------------------
(* Page: project files, preview pushes, typst renders, zoom                *)

MaxNewFiles == 1
MaxPending == 2
MaxJobs == 2
MaxUserEvents == 4

\* ids of the files of projectStructure that getAllFiles collects (the node
\* of main.typ has type 'typst', not 'file', and is left out)
InitialFileIds == <<"htmlFile", "cssFile", "jsFile">>

\* ids that generateUniqueId('file') returns, in the order of creation
NewFileIds == <<"file-1", "file-2", "file-3">>

\* Object.values(projectFiles) lists the files in the order of insertion
FileOrder == InitialFileIds \o SubSeq(NewFileIds, 1, MaxNewFiles)

InitialName(id) ==
    CASE id = "htmlFile" -> <<"index", ".", "html">>
      [] id = "cssFile"  -> <<"style", ".", "css">>
      [] id = "jsFile"   -> <<"script", ".", "js">>

InitialProjectFiles ==
    [id \in {InitialFileIds[i] : i \in 1..Len(InitialFileIds)} |->
        [id |-> id, name |-> InitialName(id), type |-> "file", content |-> "c0"]]

getFileTypeFromExtension(fileName) ==
    LET extension == ExtensionOf(fileName) IN
    CASE extension \in {<<"html">>, <<"htm">>} -> "html"
      [] extension = <<"css">>                 -> "css"
      [] extension = <<"js">>                  -> "javascript"
      [] extension = <<"typ">>                 -> "typst"
      [] OTHER                                 -> "text"

\* generatePreviewContent: the page template chosen by the extension, around
\* the file's name and content; an html file is passed through
generatePreviewContent(fileName, fileContent) ==
    LET extension == ExtensionOf(fileName) IN
    [template |-> CASE extension \in {<<"html">>, <<"htm">>}      -> "none"
                    [] extension = <<"css">>                      -> "css"
                    [] extension \in {<<"js">>, <<"javascript">>} -> "js"
                    [] extension = <<"json">>                     -> "json"
                    [] OTHER                                      -> "text",
     name |-> fileName, content |-> fileContent]

PreviewHtml == <<"preview", ".", "html">>

ValuesOf(pf) == SelectSeq(FileOrder, LAMBDA id : id \in DOMAIN pf)

\* variant: when a project file has the reserved name, the page sent under
\* that name is made from that file
PushMessagesUserFileWins(pf, target) ==
    LET named == {id \in DOMAIN pf : pf[id].name = PreviewHtml}
        shown == IF named = {} THEN target ELSE CHOOSE id \in named : TRUE
    IN
    IF target \notin DOMAIN pf THEN <<>>
    ELSE [i \in 1..Len(ValuesOf(pf)) |->
             [fileName |-> pf[ValuesOf(pf)[i]].name,
              content |-> pf[ValuesOf(pf)[i]].content]]
         \o <<[fileName |-> PreviewHtml,
               content |-> generatePreviewContent(pf[shown].name, pf[shown].content)]>>

\* the updateFile messages of one run of waitForServiceWorker with the worker
\* active: none when the preview file is missing, else one per project file
\* and one for preview.html
PushMessages(pf, target) ==
    IF target \notin DOMAIN pf THEN <<>>
    ELSE [i \in 1..Len(ValuesOf(pf)) |->
             [fileName |-> pf[ValuesOf(pf)[i]].name,
              content |-> pf[ValuesOf(pf)[i]].content]]
         \o <<[fileName |-> PreviewHtml,
               content |-> generatePreviewContent(pf[target].name, pf[target].content)]>>

\* JavaScript numbers: a zoom factor in thousandths, or NaN, or an infinity
Num(v) == [k |-> "num", v |-> v]
NaN == [k |-> "nan", v |-> 0]
PosInf == [k |-> "inf", v |-> 1]
NegInf == [k |-> "inf", v |-> -1]

DefaultZoom == 2280
InitialZoom == 1000
MinZoom == 100
MaxZoom == 5000
ZoomOutFactor == 900
ZoomInFactor == 1100
\* widths are in thousandths of a pixel
OutputPadding == 32000
SvgIntrinsicWidth == 100 * 1000

Min2(a, b) == IF a < b THEN a ELSE b
Max2(a, b) == IF a > b THEN a ELSE b

\* Math.max(0.1, Math.min(5.0, z)): NaN goes through both
Clamp(z) ==
    CASE z.k = "nan"              -> NaN
      [] z.k = "inf" /\ z.v > 0   -> Num(MaxZoom)
      [] z.k = "inf" /\ z.v < 0   -> Num(MinZoom)
      [] OTHER                    -> Num(Max2(MinZoom, Min2(MaxZoom, z.v)))

\* this.zoomLevel *= factor
Times(z, factor) ==
    IF z.k = "nan" THEN NaN ELSE Num((z.v * factor) \div 1000)

\* a / b of two widths, as a factor in thousandths
Quotient(a, b) ==
    CASE a.k = "nan" \/ b.k = "nan" -> NaN
      [] b.v = 0 /\ a.v = 0         -> NaN
      [] b.v = 0 /\ a.v > 0         -> PosInf
      [] b.v = 0 /\ a.v < 0         -> NegInf
      [] OTHER                      -> Num((a.v * 1000) \div b.v)

\* the svg is a block with max-width 100% inside outputDiv, whose padding of
\* 1rem on each side is part of clientWidth
SvgLayoutWidth(clientWidth) ==
    Min2(SvgIntrinsicWidth, Max2(0, clientWidth - OutputPadding))

\* svg.getBoundingClientRect().width: the layout width under the transform
SvgRectWidth(clientWidth) == (SvgLayoutWidth(clientWidth) * svgScale) \div 1000

\* svg.getBoundingClientRect().width / this.zoomLevel
SvgWidth(clientWidth) ==
    IF zoomLevel.k = "nan" THEN NaN
    ELSE Num((SvgRectWidth(clientWidth) * 1000) \div zoomLevel.v)

FitZoom(clientWidth) ==
    Clamp(Quotient(Num(clientWidth - OutputPadding), SvgWidth(clientWidth)))

\* svg.style.transform = `scale(${zoom})`: a declaration the style parser
\* rejects, scale(NaN), leaves the transform as it was
ScaleAfterApply(z) == IF z.k = "num" THEN z.v ELSE svgScale

\* variant: applyZoom always aligns left
AlignForAlwaysLeft(z) == "left"

\* this.zoomLevel === 1.0 ? 'center' : 'left'
AlignFor(z) == IF z = Num(1000) THEN "center" ELSE "left"

\* `existingZoomLevel` as a condition: null, NaN and 0 are falsy
Truthy(z) == z.k = "inf" \/ (z.k = "num" /\ z.v # 0)

Contents == {"c0", "c1"}
NewFileContent == "new"
ClientWidths == {32000, 132000, 1032000}
\* what the user types into the new-file input, before trim()
NewFileInputs == {<<"main", ".", "typ">>, <<" ", "main", ".", "typ", " ">>,
                  <<"index", ".", "html">>, <<" ">>, <<>>}

\* String.prototype.trim over the tokens
RECURSIVE TrimLeft(_)
TrimLeft(s) == IF s # <<>> /\ Head(s) = " " THEN TrimLeft(Tail(s)) ELSE s
RECURSIVE TrimRight(_)
TrimRight(s) ==
    IF s # <<>> /\ s[Len(s)] = " " THEN TrimRight(SubSeq(s, 1, Len(s) - 1)) ELSE s
Trim(s) == TrimRight(TrimLeft(s))

AppInit ==
    /\ projectFiles = InitialProjectFiles
    /\ activePreviewFileId = "htmlFile"
    /\ activeTab = "htmlFile"
    /\ openTabs = {"htmlFile"}
    /\ swActive = FALSE
    /\ pendingPushes = 1
    /\ startupTimer = TRUE
    /\ previewMode = "web"
    /\ typstCompiler = FALSE
    /\ typstReady = FALSE
    /\ isTypstInitializing = FALSE
    /\ jobs = <<>>
    /\ zoomLevel = Num(InitialZoom)
    /\ output = "empty"
    /\ svgScale = 1000
    /\ textAlign = "left"
    /\ zoomChosen = FALSE
    /\ diagnostics = ""
    /\ userEvents = 0
    /\ ev = [op |-> "init"]

HasFreeSlot == Len(jobs) < MaxJobs

\* the pipelines with the one at position s replaced by those of the sequence r
JobsWith(s, r) == SubSeq(jobs, 1, s - 1) \o r \o SubSeq(jobs, s + 1, Len(jobs))

\* the pipelines without the one at position s
RemoveAt(js, s) == SubSeq(js, 1, s - 1) \o SubSeq(js, s + 1, Len(js))

\* history: the renderTypst calls made before the one at position s that are
\* still waiting when that one writes the output are marked stale
Supersede(js, s) ==
    [i \in 1..Len(js) |->
        IF i < s /\ js[i].pc \in {"compile", "svg"}
        THEN [js[i] EXCEPT !.stale = TRUE] ELSE js[i]]

IsTypstPreview(pf, target) == target \in DOMAIN pf /\ pf[target].type = "typst"

\* variants: the callers of renderTypst pass the other preserveZoom
EditPreserveZoomOff == FALSE
ModePreserveZoomOn == TRUE

\* the preserveZoom argument of the two callers of renderTypst: the change
\* handler and updatePreviewMode
EditPreserveZoom == TRUE
ModePreserveZoom == FALSE

ErrorText(origin) == IF origin \in {"edit", "file"} THEN "LoadFailed" ELSE "LoadFailedCheckConsole"

\* renderTypst up to its first await: the diagnostics say 'Compiling...';
\* addSource on a compiler whose init() has not completed, or the name of a
\* missing main file, throws out of the function; otherwise the pipeline
\* waits for compile()
RenderTypstJob(job, pf, target, ready) ==
    IF ready /\ target \in DOMAIN pf
    THEN <<[pc |-> "compile", origin |-> job.origin, preserveZoom |-> job.preserveZoom,
            stale |-> FALSE]>>
    ELSE <<>>

\* does a renderTypst call made now throw before its first await?
RenderTypstThrows(pf, target, ready) == RenderTypstJob([origin |-> "any", preserveZoom |-> FALSE], pf, target, ready) = <<>>

\* the waiting renderTypst calls are kept in the order in which they were made
BeginRenderTypst(s, job, pf, target, ready) ==
    /\ diagnostics' = "Compiling"
    /\ jobs' = RemoveAt(jobs, s) \o RenderTypstJob(job, pf, target, ready)

\* variant: the caller goes on to renderTypst after writing the message
ShowLoadFailedThenRender(s, job) ==
    /\ diagnostics' = ErrorText(job.origin)
    /\ jobs' = RemoveAt(jobs, s) \o
                <<[pc |-> "compile", origin |-> job.origin,
                   preserveZoom |-> job.preserveZoom, stale |-> FALSE]>>

\* the caller's branch for ensureTypstInitialized() resolving to false
ShowLoadFailed(s, job) ==
    /\ diagnostics' = ErrorText(job.origin)
    /\ jobs' = JobsWith(s, <<>>)

\* variant: a call does not look at isTypstInitializing and starts a load
FirstWaitUnguarded == "import"

\* ensureTypstInitialized without typstCompiler: a call that finds
\* isTypstInitializing polls, any other call sets it and starts the import
FirstWait == IF isTypstInitializing THEN "poll" ELSE "import"

\* `await ensureTypstInitialized()` and what follows it without a further
\* wait, for a caller that passes preserveZoom: with typstCompiler set the
\* call resolves to true at once and renderTypst begins; while another call
\* initialises, this one polls; otherwise this call starts the import
StartPipeline(origin, preserveZoom, pf, target, diagBefore) ==
    LET s == Len(jobs) + 1
        job == [pc |-> "new", origin |-> origin, preserveZoom |-> preserveZoom,
                stale |-> FALSE]
    IN
    /\ HasFreeSlot
    /\ UNCHANGED <<typstCompiler, typstReady>>
    /\ IF typstCompiler
       THEN /\ BeginRenderTypst(s, job, pf, target, typstReady)
            /\ UNCHANGED isTypstInitializing
       ELSE /\ diagnostics' = diagBefore
            /\ jobs' = JobsWith(s, <<[job EXCEPT !.pc = FirstWait]>>)
            /\ isTypstInitializing' = TRUE

NoPipeline == UNCHANGED <<typstCompiler, typstReady, isTypstInitializing, jobs, diagnostics>>

\* what a handler did, for the history variable; `ensured` says that its
\* ensureTypstInitialized call resolved to true without a wait
Started(origin, preserveZoom, pf, target) ==
    [preserveZoom |-> preserveZoom, target |-> target,
     ensured |-> typstCompiler,
     began |-> typstCompiler /\ typstReady /\ target \in DOMAIN pf]

Ev(op, file, pushCalls, posted, started) ==
    [op |-> op, file |-> file, pushCalls |-> pushCalls, posted |-> posted,
     started |-> started]

\* n calls of updatePreviewFiles(): each posts at once when the worker is
\* active and otherwise keeps polling
CanCallPush(n) == swActive \/ pendingPushes + n <= MaxPending
PendingAfter(n) == IF swActive THEN pendingPushes ELSE pendingPushes + n
\* variant: the messages are posted without looking at the worker's state
PostedNowUnguarded(n, pf, target) ==
    IF n = 0 THEN <<>>
    ELSE IF n = 1 THEN PushMessages(pf, target)
    ELSE PushMessages(pf, target) \o PushMessages(pf, target)

PostedNow(n, pf, target) ==
    IF ~swActive \/ n = 0 THEN <<>>
    ELSE IF n = 1 THEN PushMessages(pf, target)
    ELSE PushMessages(pf, target) \o PushMessages(pf, target)

\* PreviewComponent.updatePreviewMode, called by the handler `op` on `file`
\* after that handler itself called updatePreviewFiles() `calls` times
updatePreviewMode(op, file, calls, pf, target) ==
    IF IsTypstPreview(pf, target)
    THEN /\ previewMode' = "typst"
         /\ CanCallPush(calls)
         /\ pendingPushes' = PendingAfter(calls)
         /\ StartPipeline("mode", ModePreserveZoom, pf, target, "Loading")
         /\ ev' = Ev(op, file, calls, PostedNow(calls, pf, target),
                     <<Started("mode", ModePreserveZoom, pf, target)>>)
    ELSE /\ previewMode' = "web"
         /\ CanCallPush(calls + 1)
         /\ pendingPushes' = PendingAfter(calls + 1)
         /\ NoPipeline
         /\ ev' = Ev(op, file, calls + 1, PostedNow(calls + 1, pf, target), <<>>)

viewVars == <<zoomLevel, output, svgScale, textAlign, zoomChosen>>

\* a user event is handled
UserEvent ==
    /\ userEvents < MaxUserEvents
    /\ userEvents' = userEvents + 1

\* navigator.serviceWorker.register resolved and the worker became active
ServiceWorkerActivates ==
    /\ ~swActive
    /\ swActive' = TRUE
    /\ ev' = [op |-> "swActive"]
    /\ UNCHANGED <<userEvents, projectFiles, activePreviewFileId, activeTab, openTabs, pendingPushes,
                   startupTimer, previewMode, typstCompiler, typstReady,
                   isTypstInitializing, jobs, diagnostics>>
    /\ UNCHANGED viewVars

\* a 100 ms tick of waitForServiceWorker that finds the worker active (a tick
\* before that only re-arms the timer)
PollPush ==
    /\ pendingPushes > 0
    /\ swActive
    /\ pendingPushes' = pendingPushes - 1
    /\ ev' = Ev("push", "none", 0, PushMessages(projectFiles, activePreviewFileId), <<>>)
    /\ UNCHANGED <<userEvents, projectFiles, activePreviewFileId, activeTab, openTabs, swActive,
                   startupTimer, previewMode, typstCompiler, typstReady,
                   isTypstInitializing, jobs, diagnostics>>
    /\ UNCHANGED viewVars

\* variant: an edit of any static file pushes
WebEditTriggersPushAnyFile(pf, fileId, target) == pf[fileId].type # "typst"

\* fileData.type !== 'typst' && activePreviewFileId === this.fileId
WebEditTriggersPush(pf, fileId, target) ==
    pf[fileId].type # "typst" /\ target = fileId

\* EditorComponent: the session's 'change' handler of the active tab's editor
EditorChange(content) ==
    LET fileId == activeTab
        pf == [projectFiles EXCEPT ![fileId].content = content]
        target == activePreviewFileId
    IN
    /\ UserEvent
    /\ fileId \in DOMAIN projectFiles
    /\ content # projectFiles[fileId].content
    /\ projectFiles' = pf
    /\ IF IsTypstPreview(pf, target)
       THEN /\ StartPipeline("edit", EditPreserveZoom, pf, target, diagnostics)
            /\ ev' = Ev("edit", fileId, 0, <<>>,
                        <<Started("edit", EditPreserveZoom, pf, target)>>)
            /\ UNCHANGED pendingPushes
       ELSE IF WebEditTriggersPush(pf, fileId, target)
       THEN /\ CanCallPush(1)
            /\ pendingPushes' = PendingAfter(1)
            /\ NoPipeline
            /\ ev' = Ev("edit", fileId, 1, PostedNow(1, pf, target), <<>>)
       ELSE /\ NoPipeline
            /\ ev' = Ev("edit", fileId, 0, <<>>, <<>>)
            /\ UNCHANGED pendingPushes
    /\ UNCHANGED <<activePreviewFileId, activeTab, openTabs, swActive, startupTimer, previewMode>>
    /\ UNCHANGED viewVars

\* PreviewComponent: fileSelect.onchange
SelectPreviewFile(fileId) ==
    /\ UserEvent
    /\ fileId \in DOMAIN projectFiles
    /\ fileId # activePreviewFileId
    /\ activePreviewFileId' = fileId
    /\ updatePreviewMode("select", fileId, 0, projectFiles, fileId)
    /\ zoomChosen' = FALSE
    /\ UNCHANGED <<projectFiles, activeTab, openTabs, swActive, startupTimer>>
    /\ UNCHANGED <<zoomLevel, output, svgScale, textAlign>>

\* ProjectFilesComponent.openOrFocusEditor from a click on a file name: the
\* stack's active item changes and its 'activeContentItemChanged' listener
\* calls updatePreviewMode
OpenOrFocusEditor(fileId) ==
    /\ UserEvent
    /\ fileId \in DOMAIN projectFiles
    /\ fileId # activeTab
    /\ activeTab' = fileId
    /\ openTabs' = openTabs \cup {fileId}
    /\ updatePreviewMode("tab", fileId, 0, projectFiles, activePreviewFileId)
    /\ UNCHANGED <<projectFiles, activePreviewFileId, swActive, startupTimer>>
    /\ UNCHANGED viewVars

\* the constructor's setTimeout(() => this.updatePreviewMode(), 200)
StartupTimerFires ==
    /\ startupTimer
    /\ startupTimer' = FALSE
    /\ updatePreviewMode("timer", "none", 0, projectFiles, activePreviewFileId)
    /\ UNCHANGED <<userEvents, projectFiles, activePreviewFileId, activeTab, openTabs, swActive>>
    /\ UNCHANGED viewVars

NamesOf(pf) == {pf[id].name : id \in DOMAIN pf}
\* generateUniqueId('file'): an id no file has had
NextFileId ==
    NewFileIds[CHOOSE i \in 1..MaxNewFiles :
                  /\ NewFileIds[i] \notin DOMAIN projectFiles
                  /\ \A j \in 1..(i-1) : NewFileIds[j] \in DOMAIN projectFiles]

\* variant: only an empty name ends the commit
CreateRefusedEmptyOnly(fileName, pf) == fileName = <<>>

\* !fileName, or Object.values(projectFiles).some(f => f.name === fileName)
CreateRefused(fileName, pf) == fileName = <<>> \/ fileName \in NamesOf(pf)

\* ProjectFilesComponent.createNewFile: commit of the typed name
CreateNewFile(input) ==
    LET fileName == Trim(input) IN
    /\ UserEvent
    /\ IF CreateRefused(fileName, projectFiles)
       THEN /\ ev' = [op |-> "createRefused", input |-> input]
            /\ UNCHANGED <<projectFiles, activePreviewFileId, activeTab, openTabs, swActive,
                           pendingPushes, startupTimer, previewMode>>
            /\ NoPipeline
            /\ UNCHANGED viewVars
       ELSE LET newFileId == NextFileId
                pf == [id \in DOMAIN projectFiles \cup {newFileId} |->
                          IF id = newFileId
                          THEN [id |-> newFileId, name |-> fileName,
                                type |-> getFileTypeFromExtension(fileName),
                                content |-> NewFileContent]
                          ELSE projectFiles[id]]
            IN
            /\ \E i \in 1..MaxNewFiles : NewFileIds[i] \notin DOMAIN projectFiles
            /\ projectFiles' = pf
            /\ activeTab' = newFileId
            /\ openTabs' = openTabs \cup {newFileId}
            /\ updatePreviewMode("create", newFileId, 1, pf, activePreviewFileId)
            /\ UNCHANGED <<activePreviewFileId, swActive, startupTimer>>
            /\ UNCHANGED viewVars

\* delete projectFiles[fileId]
Without(pf, fileId) == [id \in DOMAIN pf \ {fileId} |-> pf[id]]

\* the preview target after deleteFile: Object.keys(projectFiles)[0] when the
\* previewed file was deleted and a file remains
TargetAfterDelete(pf, fileId) ==
    IF activePreviewFileId = fileId /\ DOMAIN pf # {}
    THEN ValuesOf(pf)[1]
    ELSE activePreviewFileId

\* the tabs GoldenLayout can activate when the tab of fileId is closed
NextActiveTabs(fileId) ==
    IF openTabs \ {fileId} = {} THEN {"none"} ELSE openTabs \ {fileId}

\* ProjectFilesComponent.deleteFile with the confirm() accepted.  Closing the
\* active tab while another tab is open activates that one, and the
\* 'activeContentItemChanged' listener calls updatePreviewMode before the
\* preview target is moved; the handler ends with updatePreviewFiles()
deleteFile(fileId, nextTab) ==
    LET pf == Without(projectFiles, fileId)
        target == TargetAfterDelete(pf, fileId)
        tabChanges == fileId = activeTab /\ openTabs \ {fileId} # {}
        typstBranch == tabChanges /\ IsTypstPreview(pf, activePreviewFileId)
        webBranch == tabChanges /\ ~IsTypstPreview(pf, activePreviewFileId)
        calls == IF webBranch THEN 2 ELSE 1
    IN
    /\ UserEvent
    /\ fileId \in DOMAIN projectFiles
    /\ projectFiles' = pf
    /\ openTabs' = openTabs \ {fileId}
    /\ activeTab' = IF fileId = activeTab THEN nextTab ELSE activeTab
    /\ fileId = activeTab => nextTab \in NextActiveTabs(fileId)
    /\ fileId # activeTab => nextTab = "none"
    /\ activePreviewFileId' = target
    /\ previewMode' = IF typstBranch THEN "typst"
                      ELSE IF webBranch THEN "web" ELSE previewMode
    /\ CanCallPush(calls)
    /\ pendingPushes' = PendingAfter(calls)
    /\ IF typstBranch
       THEN StartPipeline("mode", ModePreserveZoom, pf, target, "Loading")
       ELSE NoPipeline
    /\ ev' = Ev("delete", fileId, calls,
                IF ~swActive THEN <<>>
                ELSE (IF webBranch THEN PushMessages(pf, activePreviewFileId) ELSE <<>>)
                     \o PushMessages(pf, target),
                IF typstBranch
                THEN <<Started("mode", ModePreserveZoom, pf, target)>> ELSE <<>>)
    /\ zoomChosen' = (zoomChosen /\ target = activePreviewFileId)
    /\ UNCHANGED <<swActive, startupTimer>>
    /\ UNCHANGED <<zoomLevel, output, svgScale, textAlign>>

\* what the user types into the rename input, before trim()
RenameInputs == {<<"style", ".", "css">>, <<" ", "main", ".", "typ">>, <<" ">>}

\* variant: the renamed file is given an id made from its new name
RenamedWithNewId(currentFile, trimmedNewName) ==
    [currentFile EXCEPT !.id = "renamed",
                        !.name = trimmedNewName,
                        !.type = getFileTypeFromExtension(trimmedNewName)]

\* currentFile.name = trimmedNewName;
\* currentFile.type = getFileTypeFromExtension(currentFile.name)
Renamed(currentFile, trimmedNewName) ==
    [currentFile EXCEPT !.name = trimmedNewName,
                        !.type = getFileTypeFromExtension(trimmedNewName)]

\* ProjectFilesComponent.commitRename
commitRename(fileId, newName) ==
    LET trimmedNewName == Trim(newName)
        pf == [projectFiles EXCEPT
                  ![fileId] = Renamed(projectFiles[fileId], trimmedNewName)]
    IN
    /\ UserEvent
    /\ fileId \in DOMAIN projectFiles
    /\ IF trimmedNewName # <<>> /\ trimmedNewName # projectFiles[fileId].name
       THEN /\ projectFiles' = pf
            /\ CanCallPush(1)
            /\ pendingPushes' = PendingAfter(1)
            /\ ev' = Ev("rename", fileId, 1, PostedNow(1, pf, activePreviewFileId), <<>>)
       ELSE /\ ev' = [op |-> "renameRefused"]
            /\ UNCHANGED <<projectFiles, pendingPushes>>
    /\ NoPipeline
    /\ UNCHANGED <<activePreviewFileId, activeTab, openTabs, swActive, startupTimer,
                   previewMode>>
    /\ UNCHANGED viewVars

\* names of the files the user drops on the file list
DroppedNames == {<<"index", ".", "html">>, <<"main", ".", "typ">>}
DroppedContent == "dropped"

\* ProjectFilesComponent.handleDrop: reader.onload of one dropped file; the
\* first file of the drop is opened in an editor tab, which becomes the
\* active one, so that updatePreviewMode runs
readerOnload(fileName, isFirst) ==
    LET newFileId == NextFileId
        pf == [id \in DOMAIN projectFiles \cup {newFileId} |->
                  IF id = newFileId
                  THEN [id |-> newFileId, name |-> fileName,
                        type |-> getFileTypeFromExtension(fileName),
                        content |-> DroppedContent]
                  ELSE projectFiles[id]]
    IN
    /\ UserEvent
    /\ \E i \in 1..MaxNewFiles : NewFileIds[i] \notin DOMAIN projectFiles
    /\ projectFiles' = pf
    /\ IF isFirst
       THEN /\ activeTab' = newFileId
            /\ openTabs' = openTabs \cup {newFileId}
            /\ updatePreviewMode("drop", newFileId, 0, pf, activePreviewFileId)
       ELSE /\ ev' = Ev("drop", newFileId, 0, <<>>, <<>>)
            /\ NoPipeline
            /\ UNCHANGED <<activeTab, openTabs, pendingPushes, previewMode>>
    /\ UNCHANGED <<activePreviewFileId, swActive, startupTimer>>
    /\ UNCHANGED viewVars

fileVars == <<projectFiles, activePreviewFileId, activeTab, openTabs, swActive,
              pendingPushes, startupTimer, previewMode, userEvents>>

\* ensureTypstInitialized of the initialising caller: the dynamic import
\* settles; on success the compiler and renderer objects are created and
\* their init() calls are awaited
ImportDone(s, ok) ==
    /\ s \in 1..Len(jobs)
    /\ jobs[s].pc = "import"
    /\ IF ok
       THEN /\ typstCompiler' = TRUE
            /\ jobs' = [jobs EXCEPT ![s].pc = "init"]
            /\ UNCHANGED <<isTypstInitializing, diagnostics>>
       ELSE /\ isTypstInitializing' = FALSE
            /\ ShowLoadFailed(s, jobs[s])
            /\ UNCHANGED typstCompiler
    /\ ev' = [op |-> "importDone", ok |-> ok]
    /\ UNCHANGED typstReady
    /\ UNCHANGED fileVars
    /\ UNCHANGED viewVars

\* Promise.all of the two init() calls settles
InitDone(s, ok) ==
    /\ s \in 1..Len(jobs)
    /\ jobs[s].pc = "init"
    /\ isTypstInitializing' = FALSE
    /\ typstReady' = ok
    /\ IF ok
       THEN BeginRenderTypst(s, jobs[s], projectFiles, activePreviewFileId, TRUE)
       ELSE ShowLoadFailed(s, jobs[s])
    /\ ev' = [op |-> "initDone", ok |-> ok, origin |-> jobs[s].origin,
              mainFileId |-> activePreviewFileId,
              threw |-> ok /\ RenderTypstThrows(projectFiles, activePreviewFileId, TRUE)]
    /\ UNCHANGED typstCompiler
    /\ UNCHANGED fileVars
    /\ UNCHANGED viewVars

\* a tick of the polling interval of a waiting ensureTypstInitialized call
\* that resolves it (a tick during the import changes nothing)
PollTick(s) ==
    /\ s \in 1..Len(jobs)
    /\ jobs[s].pc = "poll"
    /\ typstCompiler \/ ~isTypstInitializing
    /\ IF typstCompiler
       THEN BeginRenderTypst(s, jobs[s], projectFiles, activePreviewFileId, typstReady)
       ELSE ShowLoadFailed(s, jobs[s])
    /\ ev' = [op |-> "pollTick", ensured |-> typstCompiler, origin |-> jobs[s].origin,
              mainFileId |-> activePreviewFileId,
              threw |-> typstCompiler /\
                        RenderTypstThrows(projectFiles, activePreviewFileId, typstReady)]
    /\ UNCHANGED <<typstCompiler, typstReady, isTypstInitializing>>
    /\ UNCHANGED fileVars
    /\ UNCHANGED viewVars

CompileResults == {"result", "noResult", "throw"}

\* variant: a compile without a result leaves the output as it is
OutputAfterCompileKept(r, shown) == shown

\* variant: the catch block writes the failure paragraph into the output
OutputAfterCompileThrowShown(r, shown) == IF r = "result" THEN shown ELSE "failed"

\* the output after compile settles: without a result innerHTML becomes the
\* 'Compilation failed.' paragraph; a throw and a result leave it to what follows
OutputAfterCompile(r, shown) == IF r = "noResult" THEN "failed" ELSE shown

\* renderTypst: typstCompiler.compile settles
CompileDone(s, r) ==
    /\ s \in 1..Len(jobs)
    /\ jobs[s].pc = "compile"
    /\ diagnostics' = IF r = "throw" THEN "Critical" ELSE "NoErrors"
    /\ jobs' = CASE r = "result"   -> JobsWith(s, <<[jobs[s] EXCEPT !.pc = "svg"]>>)
                  [] r = "noResult" -> RemoveAt(Supersede(jobs, s), s)
                  [] OTHER          -> RemoveAt(jobs, s)
    /\ output' = OutputAfterCompile(r, output)
    /\ ev' = [op |-> "compileDone", r |-> r, stale |-> jobs[s].stale,
              hadSvg |-> output = "svg"]
    /\ UNCHANGED <<typstCompiler, typstReady, isTypstInitializing>>
    /\ UNCHANGED <<zoomLevel, svgScale, textAlign, zoomChosen>>
    /\ UNCHANGED fileVars

\* the zoom that renderTypst captures before it replaces the output
ExistingZoomLevel(preserveZoom) ==
    IF preserveZoom /\ output = "svg" THEN zoomLevel ELSE [k |-> "null", v |-> 0]

\* variant: the transform is set in a later turn of the event loop, so the step that replaces
\* the output leaves the new svg at its natural size
ScaleOfNewSvgDeferred(z) == 1000

\* svgElement.style.transform = `scale(${z})`, set in the same synchronous
\* block as outputContainer.innerHTML = svg
ScaleOfNewSvg(z) == z

\* renderTypst: typstRenderer.renderSvg settles; with the markup the output
\* is replaced and the zoom reapplied or reset
RenderSvgDone(s, ok) ==
    /\ s \in 1..Len(jobs)
    /\ jobs[s].pc = "svg"
    /\ jobs' = RemoveAt(IF ok THEN Supersede(jobs, s) ELSE jobs, s)
    /\ LET preserveZoom == jobs[s].preserveZoom
           existingZoomLevel == ExistingZoomLevel(preserveZoom)
       IN
       IF ok
       THEN /\ output' = "svg"
            /\ IF preserveZoom /\ Truthy(existingZoomLevel)
               THEN /\ svgScale' = ScaleOfNewSvg(existingZoomLevel.v)
                    /\ UNCHANGED <<zoomLevel, textAlign>>
               ELSE /\ zoomLevel' = Num(DefaultZoom)
                    /\ svgScale' = ScaleOfNewSvg(DefaultZoom)
                    /\ textAlign' = "left"
            /\ UNCHANGED diagnostics
       ELSE /\ diagnostics' = "Critical"
            /\ UNCHANGED <<zoomLevel, output, svgScale, textAlign>>
    /\ ev' = [op |-> "renderDone", ok |-> ok, preserveZoom |-> jobs[s].preserveZoom,
              hadSvg |-> output = "svg", zoomBefore |-> zoomLevel,
              stale |-> jobs[s].stale]
    /\ UNCHANGED <<typstCompiler, typstReady, isTypstInitializing, zoomChosen>>
    /\ UNCHANGED fileVars

\* PreviewComponent.applyZoom
applyZoom(z) ==
    IF output = "svg"
    THEN /\ svgScale' = ScaleAfterApply(z)
         /\ textAlign' = AlignFor(z)
    ELSE UNCHANGED <<svgScale, textAlign>>

\* PreviewComponent.adjustZoom, from the zoom buttons of the typst preview
adjustZoom(factor) ==
    /\ previewMode = "typst"
    /\ UserEvent
    /\ zoomLevel' = Clamp(Times(zoomLevel, factor))
    /\ applyZoom(Clamp(Times(zoomLevel, factor)))
    /\ zoomChosen' = TRUE
    /\ ev' = [op |-> "adjustZoom"]
    /\ UNCHANGED output
    /\ NoPipeline
    /\ UNCHANGED <<projectFiles, activePreviewFileId, activeTab, openTabs, swActive,
                   pendingPushes, startupTimer, previewMode>>

\* PreviewComponent.fitToWidth, with the client width of outputDiv at the click
fitToWidth(clientWidth) ==
    /\ previewMode = "typst"
    /\ UserEvent
    /\ IF output = "svg"
       THEN /\ zoomLevel' = FitZoom(clientWidth)
            /\ applyZoom(FitZoom(clientWidth))
       ELSE UNCHANGED <<zoomLevel, svgScale, textAlign>>
    /\ zoomChosen' = (zoomChosen \/ output = "svg")
    /\ ev' = [op |-> "fitToWidth"]
    /\ UNCHANGED output
    /\ NoPipeline
    /\ UNCHANGED <<projectFiles, activePreviewFileId, activeTab, openTabs, swActive,
                   pendingPushes, startupTimer, previewMode>>

-----------------------------------------------------------------------------
(* Registry: generatePreview of the handlers, requiresCustomRender, renderFile *)

\* generatePreview of the web handler: an html page made from the file; the
\* values of the property requiresCustomRender are written as strings
WebGeneratePreview(fileName, fileContent) ==
    [type |-> "html", requiresCustomRender |-> "undefined",
     content |-> generatePreviewContent(fileName, fileContent)]

\* variant: the typst handler asks for the custom render only for a file that
\* has content
TypstGeneratePreviewByContent(fileName, fileContent) ==
    [type |-> "typst", content |-> "undefined",
     requiresCustomRender |-> IF fileContent # "" THEN "true" ELSE "false"]

\* generatePreview of the typst handler
TypstGeneratePreview(fileName, fileContent) ==
    [type |-> "typst", requiresCustomRender |-> "true", content |-> "undefined"]

generatePreview(h, fileName, fileContent) ==
    IF h = "typst" THEN TypstGeneratePreview(fileName, fileContent)
    ELSE WebGeneratePreview(fileName, fileContent)

\* preview.requiresCustomRender === true, for the preview of empty content
requiresCustomRender(fileName) ==
    generatePreview(getHandlerForFile(fileName), fileName, "").requiresCustomRender = "true"

\* variant: every handler is taken to have a render function
HasRenderAlways(h) == TRUE

\* handler.render && typeof handler.render === 'function': the web handler
\* exports render: null
HasRender(h) == h = "typst"

PreviewContents == {"", "c1"}

CallRequiresCustomRender(fileName) ==
    /\ regCall' = [op |-> "requiresCustomRender", fileName |-> fileName,
                   result |-> requiresCustomRender(fileName)]
    /\ UNCHANGED <<windowAce, aceModeInitialized, aceInitCalls, lazyInitCalls,
                   modeScripts>>

\* generatePreviewContent of the registry: the resolved handler's preview
CallGeneratePreviewContent(fileName, fileContent) ==
    /\ regCall' = [op |-> "generatePreviewContent", fileName |-> fileName,
                   fileContent |-> fileContent,
                   result |-> generatePreview(getHandlerForFile(fileName),
                                              fileName, fileContent)]
    /\ UNCHANGED <<windowAce, aceModeInitialized, aceInitCalls, lazyInitCalls,
                   modeScripts>>

\* renderFile: the render of the typst handler awaits ensureTypstInitialized
\* and then calls renderTypst; without a render function the call rejects
CallRenderFile(fileName, fileId, preserveZoom) ==
    LET handler == getHandlerForFile(fileName) IN
    /\ IF HasRender(handler)
       THEN StartPipeline("file", preserveZoom, projectFiles, fileId, diagnostics)
       ELSE NoPipeline
    /\ regCall' = [op |-> "renderFile", fileName |-> fileName,
                   outcome |-> IF HasRender(handler) THEN "forwarded" ELSE "rejected"]
    /\ UNCHANGED <<windowAce, aceModeInitialized, aceInitCalls, lazyInitCalls,
                   modeScripts>>
    /\ UNCHANGED fileVars
    /\ UNCHANGED <<viewVars, ev>>

-----------------------------------------------------------------------------
vars == <<windowAce, aceModeInitialized, aceInitCalls, lazyInitCalls,
          modeScripts, regCall, files, sent, swOut,
          projectFiles, activePreviewFileId, activeTab, openTabs, swActive,
          pendingPushes, startupTimer, previewMode, typstCompiler,
          typstReady, isTypstInitializing, jobs, zoomLevel, output,
          svgScale, textAlign, zoomChosen, diagnostics, userEvents, ev>>

Init == RegInit /\ SwInit /\ AppInit

RegNext ==
    \/ \E fileName \in AceNames :
          CallGetAceModeForFile(fileName) /\ UNCHANGED swVars /\ UNCHANGED appVars
    \/ CallInitializeAllAceModes /\ UNCHANGED swVars /\ UNCHANGED appVars
    \/ \E fileName \in AceNames :
          CallRequiresCustomRender(fileName) /\ UNCHANGED swVars /\ UNCHANGED appVars
    \/ \E fileName \in AceNames, fileContent \in PreviewContents :
          CallGeneratePreviewContent(fileName, fileContent)
              /\ UNCHANGED swVars /\ UNCHANGED appVars
    \/ \E fileName \in AceNames, fileId \in DOMAIN projectFiles, preserveZoom \in BOOLEAN :
          CallRenderFile(fileName, fileId, preserveZoom) /\ UNCHANGED swVars

\* handler resolution as a function of the file name: the name is drawn in the
\* initial state and the one step applies getHandlerForFile to it
ResolveInit ==
    /\ RegInit!1 /\ RegInit!2 /\ RegInit!3 /\ RegInit!4 /\ RegInit!5
    /\ \E fileName \in RegNames : regCall = [op |-> "input", fileName |-> fileName]
    /\ SwInit
    /\ AppInit

ResolveNext ==
    /\ regCall.op = "input"
    /\ CallGetHandlerForFile(regCall.fileName)
    /\ UNCHANGED swVars /\ UNCHANGED appVars

\* initializeAllAceModes as a function of what the registered handlers do: for
\* each handler of the list, whether it has an initializeAceMode and whether
\* that function throws
InitKinds == {"none", "ok", "throws"}

\* variant: no try/catch around the call, a throw ends the forEach
CalledByInitAllUnguarded(kinds, i) ==
    kinds[i] # "none" /\ \A j \in 1..(i-1) : kinds[j] # "throws"

\* is initializeAceMode of the i-th handler called?  Each call has its own
\* try/catch, so a throw of an earlier handler does not end the forEach
CalledByInitAll(kinds, i) == kinds[i] # "none"

\* does initializeAllAceModes throw?  The catch block only logs
InitAllThrows(kinds) == FALSE

InitAllInit ==
    /\ windowAce \in BOOLEAN
    /\ aceModeInitialized \in [Handlers -> BOOLEAN]
    /\ aceInitCalls = [h \in Handlers |-> 0]
    /\ lazyInitCalls = [h \in Handlers |-> 0]
    /\ modeScripts = 0
    /\ \E kinds \in [1..Len(handlers) -> InitKinds] :
          regCall = [op |-> "inputAll", kinds |-> kinds]
    /\ SwInit
    /\ AppInit

InitAllNext ==
    /\ regCall.op = "inputAll"
    /\ aceInitCalls' = [h \in Handlers |->
                          IF \E i \in 1..Len(handlers) :
                                handlers[i] = h /\ CalledByInitAll(regCall.kinds, i)
                          THEN aceInitCalls[h] + 1 ELSE aceInitCalls[h]]
    /\ regCall' = [op |-> "initializeAll", kinds |-> regCall.kinds,
                   threw |-> InitAllThrows(regCall.kinds)]
    /\ UNCHANGED <<windowAce, aceModeInitialized, lazyInitCalls, modeScripts>>
    /\ UNCHANGED swVars /\ UNCHANGED appVars

SwNext ==
    \/ \E fileName \in WorkerNames, content \in WorkerContents \cup {Undefined} :
          OnUpdateFile(fileName, content) /\ UNCHANGED regVars /\ UNCHANGED appVars
    \/ OnOtherMessage /\ UNCHANGED regVars /\ UNCHANGED appVars
    \/ \E url \in FetchUrls : OnFetch(url) /\ UNCHANGED regVars /\ UNCHANGED appVars

\* the page: main.js bundles ace, so window.ace is defined
AppSpecInit == Init /\ windowAce

libVars == <<windowAce, aceModeInitialized, aceInitCalls, lazyInitCalls,
             modeScripts, regCall, files, sent, swOut>>

Next ==
    \/ ServiceWorkerActivates /\ UNCHANGED libVars
    \/ PollPush /\ UNCHANGED libVars
    \/ \E content \in Contents : EditorChange(content) /\ UNCHANGED libVars
    \/ \E fileId \in DOMAIN projectFiles : SelectPreviewFile(fileId) /\ UNCHANGED libVars
    \/ \E fileId \in DOMAIN projectFiles : OpenOrFocusEditor(fileId) /\ UNCHANGED libVars
    \/ StartupTimerFires /\ UNCHANGED libVars
    \/ \E input \in NewFileInputs : CreateNewFile(input) /\ UNCHANGED libVars
    \/ \E s \in 1..MaxJobs, ok \in BOOLEAN : ImportDone(s, ok) /\ UNCHANGED libVars
    \/ \E s \in 1..MaxJobs, ok \in BOOLEAN : InitDone(s, ok) /\ UNCHANGED libVars
    \/ \E s \in 1..MaxJobs : PollTick(s) /\ UNCHANGED libVars
    \/ \E s \in 1..MaxJobs, r \in CompileResults : CompileDone(s, r) /\ UNCHANGED libVars
    \/ \E s \in 1..MaxJobs, ok \in BOOLEAN : RenderSvgDone(s, ok) /\ UNCHANGED libVars
    \/ \E factor \in {ZoomOutFactor, ZoomInFactor} : adjustZoom(factor) /\ UNCHANGED libVars
    \/ \E clientWidth \in ClientWidths : fitToWidth(clientWidth) /\ UNCHANGED libVars

Spec == AppSpecInit /\ [][Next]_vars

\* the project's files: the operations of the file list and the editor, with
\* the pushes and renders they start
NextProject ==
    \/ ServiceWorkerActivates /\ UNCHANGED libVars
    \/ PollPush /\ UNCHANGED libVars
    \/ StartupTimerFires /\ UNCHANGED libVars
    \/ \E content \in Contents : EditorChange(content) /\ UNCHANGED libVars
    \/ \E input \in NewFileInputs : CreateNewFile(input) /\ UNCHANGED libVars
    \/ \E s \in 1..MaxJobs, ok \in BOOLEAN : ImportDone(s, ok) /\ UNCHANGED libVars
    \/ \E s \in 1..MaxJobs, ok \in BOOLEAN : InitDone(s, ok) /\ UNCHANGED libVars
    \/ \E s \in 1..MaxJobs : PollTick(s) /\ UNCHANGED libVars
    \/ \E s \in 1..MaxJobs, r \in CompileResults : CompileDone(s, r) /\ UNCHANGED libVars
    \/ \E s \in 1..MaxJobs, ok \in BOOLEAN : RenderSvgDone(s, ok) /\ UNCHANGED libVars
    \/ \E fileId \in DOMAIN projectFiles, nextTab \in DOMAIN projectFiles \cup {"none"} :
          deleteFile(fileId, nextTab) /\ UNCHANGED libVars
    \/ \E fileId \in DOMAIN projectFiles, newName \in RenameInputs :
          commitRename(fileId, newName) /\ UNCHANGED libVars
    \/ \E fileName \in DroppedNames, isFirst \in BOOLEAN :
          readerOnload(fileName, isFirst) /\ UNCHANGED libVars

SpecProject == AppSpecInit /\ [][NextProject]_vars

SpecRegistry == Init /\ [][RegNext]_vars

SpecResolve == ResolveInit /\ [][ResolveNext]_vars

SpecWorker == Init /\ [][SwNext]_vars

SpecInitAll == InitAllInit /\ [][InitAllNext]_vars

-----------------------------------------------------------------------------
(* Claims                                                                  *)

HasDot(fileName) == \E i \in 1..Len(fileName) : fileName[i] = "."

\* the text after the last dot of a name that has a dot, lower-cased
LastExtension(fileName) == toLowerCase(SubSeq(fileName, LastIndexOf(fileName, ".") + 1, Len(fileName)))

ClaimedHandler(fileName) ==
    IF HasDot(fileName) /\ LastExtension(fileName) = <<"typ">> THEN "typst" ELSE "web"

\* C1: getHandlerForFile returns the Typst handler exactly for the names whose
\* last extension is typ (in any case) and the Web handler for every other
\* name, the names with no dot included.
C1_ResolutionByExtension ==
    regCall.op = "getHandlerForFile" =>
        regCall.result = ClaimedHandler(regCall.fileName)

IsFetchOutcome == swOut.kind \in {"response", "passthrough"}

IsStaticPreview(pf, target) == target \in DOMAIN pf /\ pf[target].type # "typst"

\* C2: while the previewed file B is a static one, the change handler of
\* another file A calls updatePreviewFiles not at all (no updateFile message,
\* no poll added, no render), and the change handler of B calls it exactly
\* once: the batch of messages is posted at once when the worker is active and
\* one poll is added when it is not.
C2_StaticEditPolicy ==
    [][ (ev'.op = "edit" /\ IsStaticPreview(projectFiles', activePreviewFileId'))
        => /\ ev'.started = <<>>
           /\ jobs' = jobs
           /\ IF ev'.file # activePreviewFileId'
              THEN /\ ev'.pushCalls = 0
                   /\ ev'.posted = <<>>
                   /\ pendingPushes' = pendingPushes
              ELSE /\ ev'.pushCalls = 1
                   /\ IF swActive
                      THEN /\ ev'.posted = PushMessages(projectFiles', activePreviewFileId')
                           /\ pendingPushes' = pendingPushes
                      ELSE /\ ev'.posted = <<>>
                           /\ pendingPushes' = pendingPushes + 1 ]_vars

C2_Witness ==
    /\ ev.op = "edit"
    /\ IsStaticPreview(projectFiles, activePreviewFileId)
    /\ ev.file # activePreviewFileId
    /\ swActive
    /\ ev.pushCalls = 0

\* C3: while the previewed file C is a typst file, the change handler of any
\* file starts exactly one render pipeline, for C and with preserveZoom =
\* true, and calls updatePreviewFiles not at all; with the compiler set the
\* renderTypst call is made in the same step (and a pipeline waits for its
\* compile unless the call threw), otherwise one pipeline waits for the
\* initialisation.
C3_TypstEditPolicy ==
    [][ (ev'.op = "edit" /\ IsTypstPreview(projectFiles', activePreviewFileId'))
        => /\ Len(ev'.started) = 1
           /\ ev'.started[1].preserveZoom = TRUE
           /\ ev'.started[1].target = activePreviewFileId'
           /\ ev'.pushCalls = 0
           /\ pendingPushes' = pendingPushes
           /\ IF typstCompiler /\ ~typstReady
              THEN jobs' = jobs
              ELSE /\ Len(jobs') = Len(jobs) + 1
                   /\ SubSeq(jobs', 1, Len(jobs)) = jobs
                   /\ jobs'[Len(jobs')].preserveZoom = TRUE
                   /\ jobs'[Len(jobs')].pc = "compile" <=> typstCompiler ]_vars

C3_Witness ==
    /\ ev.op = "edit"
    /\ IsTypstPreview(projectFiles, activePreviewFileId)
    /\ ev.file # activePreviewFileId
    /\ ev.started[1].began
    /\ ev.started[1].preserveZoom
    /\ output = "svg"

\* C4: when the output already shows a rendered svg and a render with
\* preserveZoom = true completes with a new svg, the zoom level is the one it
\* was just before the output was replaced and the new svg is scaled by it.
C4_ZoomPreservedOnEdit ==
    (ev.op = "renderDone" /\ ev.ok /\ ev.preserveZoom /\ ev.hadSvg)
    => /\ zoomLevel = ev.zoomBefore
       /\ zoomLevel.k = "num"
       /\ svgScale = zoomLevel.v

\* C5: a change of the file selector makes the selected file the preview
\* target and starts one fresh render of it: for a typst file one pipeline
\* with preserveZoom = false, for a static file one updatePreviewFiles call;
\* and a render with preserveZoom = false that completes with an svg leaves
\* the zoom level and the svg's scale at the default 2.28, whatever the zoom
\* was before.
C5_SelectRendersFresh ==
    [][ /\ ev'.op = "select"
           => /\ ev'.file = activePreviewFileId'
              /\ IF IsTypstPreview(projectFiles', activePreviewFileId')
                 THEN /\ Len(ev'.started) = 1
                      /\ ev'.started[1].preserveZoom = FALSE
                      /\ ev'.started[1].target = activePreviewFileId'
                      /\ ev'.pushCalls = 0
                      /\ \/ typstCompiler /\ ~typstReady /\ jobs' = jobs
                         \/ /\ Len(jobs') = Len(jobs) + 1
                            /\ jobs'[Len(jobs')].preserveZoom = FALSE
                 ELSE /\ ev'.started = <<>>
                      /\ ev'.pushCalls = 1
                      /\ jobs' = jobs
        /\ (ev'.op = "renderDone" /\ ev'.ok /\ ~ev'.preserveZoom)
           => /\ zoomLevel' = Num(DefaultZoom)
              /\ svgScale' = DefaultZoom
              /\ output' = "svg" ]_vars

C5_Witness ==
    /\ ev.op = "renderDone"
    /\ ev.ok
    /\ ~ev.preserveZoom
    /\ ev.zoomBefore \notin {Num(DefaultZoom), Num(InitialZoom)}
    /\ zoomLevel = Num(DefaultZoom)

\* C6: in every reachable state the zoom level is a number of [0.1, 5.0].
C6_ZoomInRange ==
    /\ zoomLevel.k = "num"
    /\ MinZoom <= zoomLevel.v
    /\ zoomLevel.v <= MaxZoom

\* C7: once updateFile(n, c) with a string c was processed, a fetch of the
\* preview prefix followed by n is answered with body c, the content of the
\* most recent updateFile for n, whatever was sent for other names since.
C7_ReadYourWrites ==
    \A b \in Bases : \A n \in DOMAIN sent :
        (/\ IsFetchOutcome
         /\ swOut.url = b \o PreviewPrefix \o n
         /\ sent[n] # Undefined)
        => (swOut.kind = "response" /\ swOut.body = sent[n])

ClaimedContentType(extension) ==
    CASE extension = <<"js">>   -> "application/javascript"
      [] extension = <<"css">>  -> "text/css"
      [] extension = <<"html">> -> "text/html"
      [] extension = <<"htm">>  -> "text/html"
      [] extension = <<"json">> -> "application/json"
      [] OTHER                  -> "text/plain"

\* the last path segment of a served name
BaseName(name) == SubSeq(name, LastIndexOf(name, "/") + 1, Len(name))

NamesAbsentFile(pathname) ==
    /\ IncludesPreview(pathname)
    /\ FilePathOf(pathname) # <<>>
    /\ FilePathOf(pathname) \notin DOMAIN files

\* C9: a fetch whose path is not under the preview prefix, or is under it and
\* names a file the table does not hold, gets no response from the worker and
\* leaves the table as it was.
C9_FallThrough ==
    [][ (/\ swOut'.kind \in {"response", "passthrough"}
         /\ \/ ~IncludesPreview(swOut'.pathname)
            \/ NamesAbsentFile(swOut'.pathname))
        => (swOut'.kind = "passthrough" /\ files' = files) ]_vars

C9_Witness ==
    /\ swOut.kind = "passthrough"
    /\ files # <<>>
    /\ NamesAbsentFile(swOut.pathname)

\* C10: however often getAceModeForFile is called for names of one handler,
\* it calls that handler's initializeAceMode at most once.
C10_LazyInitAtMostOnce ==
    \A h \in Handlers : lazyInitCalls[h] <= 1

C10_Witness ==
    /\ regCall.op = "getAceModeForFile"
    /\ getHandlerForFile(regCall.fileName) = "typst"
    /\ ~regCall.ranInit
    /\ lazyInitCalls["typst"] = 1
    /\ aceModeInitialized["typst"]

\* C11: across any sequence of initializeAllAceModes and getAceModeForFile
\* calls, the initializeAceMode of each handler runs at most once (a call made
\* once the handler is initialized, by either operation, is a no-op), so the
\* script of its custom mode is appended at most once.
C11_InitExactlyOnce ==
    /\ \A h \in Handlers : aceInitCalls[h] <= 1
    /\ modeScripts <= 1

\* render pipelines whose ensureTypstInitialized call is loading or
\* initialising the compiler module
InFlight == {s \in 1..Len(jobs) : jobs[s].pc \in {"import", "init"}}

\* C12: at every instant at most one load-and-initialise of the compiler
\* module is in flight, and while one is in flight isTypstInitializing is set,
\* so a call that arrives then polls or returns and starts no second load.
C12_SingleFlight ==
    /\ Cardinality(InFlight) <= 1
    /\ InFlight # {} => isTypstInitializing

C12_Witness ==
    /\ Len(jobs) = 2
    /\ jobs[1].pc = "import"
    /\ jobs[2].pc = "poll"

\* the last step resolved an ensureTypstInitialized call to true: a handler's
\* call did so at once, or a polling call did so at a tick
EnsureReturnedTrue ==
    \/ /\ ev.op \in {"edit", "select", "tab", "create", "timer"}
       /\ ev.started # <<>>
       /\ ev.started[1].ensured
    \/ ev.op = "pollTick" /\ ev.ensured
    \/ ev.op = "initDone" /\ ev.ok

\* C13: ensureTypstInitialized resolves to true only when the compiler and
\* the renderer have both completed init() successfully; a call that arrives
\* or polls while the initialisation is in flight does not get true.
C13_TrueOnlyWhenReady ==
    EnsureReturnedTrue => typstReady

\* C14: right after an ensureTypstInitialized call returned false because the
\* import or an init() failed, the state is the one in which the next call
\* starts a load: typstCompiler is unset and isTypstInitializing is false.
C14_RetryAfterFailure ==
    (ev.op \in {"importDone", "initDone"} /\ ~ev.ok)
    => (~typstCompiler /\ ~isTypstInitializing)

\* the last step completed a renderTypst call that wrote the output: the svg
\* of its artifact, or the message that the compilation failed
RenderWroteOutput ==
    \/ ev.op = "renderDone" /\ ev.ok
    \/ ev.op = "compileDone" /\ ev.r = "noResult"

\* C15: a renderTypst call that completes after a later-started call has
\* written the output does not write it, so that after two overlapping calls
\* the output is that of the later-started one.
C15_LaterRenderWins ==
    RenderWroteOutput => ~ev.stale

\* C16: in every reachable state no two files of the project have the same
\* name, whatever was created, renamed, dropped, deleted and edited.
C16_UniqueNames ==
    \A a, b \in DOMAIN projectFiles :
        a # b => projectFiles[a].name # projectFiles[b].name

\* C17: after a confirmed deleteFile(f), f is not in the project, the preview
\* target is not f and the active editor file is not f, also when f was the
\* only file.
C17_DeleteLeavesNoDependent ==
    ev.op = "delete" =>
        /\ ev.file \notin DOMAIN projectFiles
        /\ activePreviewFileId # ev.file
        /\ activeTab # ev.file

\* the last step ran updatePreviewFiles with the worker active
PushRan == ev.op \in {"push", "edit", "select", "tab", "timer", "create", "delete",
                      "rename", "drop"}

\* the last step called renderTypst after an await
RenderRanAfterAwait ==
    \/ ev.op = "initDone" /\ ev.ok
    \/ ev.op = "pollTick" /\ ev.ensured

\* C18: a push or a render that runs while the preview target is not a file
\* of the project posts no updateFile message and does not throw.
C18_MissingTargetNoOp ==
    activePreviewFileId \notin DOMAIN projectFiles =>
        /\ PushRan => ev.posted = <<>>
        /\ RenderRanAfterAwait => ~ev.threw

\* C19: renderFile forwards to the render of the resolved handler when it has
\* one (one render pipeline starts), and for every name resolved to the web
\* handler it rejects and leaves the output, the diagnostics and the pending
\* renders as they were.
C19_RenderFileForwardsOrRejects ==
    [][ regCall'.op = "renderFile" =>
          IF getHandlerForFile(regCall'.fileName) = "web"
          THEN /\ regCall'.outcome = "rejected"
               /\ output' = output
               /\ diagnostics' = diagnostics
               /\ jobs' = jobs
          ELSE /\ regCall'.outcome = "forwarded"
               /\ Len(jobs') = Len(jobs) + 1 ]_vars

C19_Witness ==
    /\ regCall.op = "renderFile"
    /\ regCall.fileName = <<"a", ".", "css">>
    /\ regCall.outcome = "rejected"
    /\ Len(jobs) = 1
    /\ diagnostics = ""

\* the category of a preview
Category(preview) ==
    IF preview.requiresCustomRender = "true" THEN "customRender" ELSE "staticHtml"

\* C20: requiresCustomRender(name) is true exactly when the resolved handler
\* is the typst handler, and the category of the preview that a handler
\* generates for a name is that of its preview of empty content.
C20_CustomRenderByHandler ==
    /\ regCall.op = "requiresCustomRender" =>
          (regCall.result <=> getHandlerForFile(regCall.fileName) = "typst")
    /\ regCall.op = "generatePreviewContent" =>
          /\ Category(regCall.result) =
                Category(generatePreview(getHandlerForFile(regCall.fileName),
                                         regCall.fileName, ""))
          /\ Category(regCall.result) = "customRender"
                <=> getHandlerForFile(regCall.fileName) = "typst"

C20_Witness ==
    /\ regCall.op = "generatePreviewContent"
    /\ regCall.fileName = <<"a", ".", "TYP">>
    /\ regCall.fileContent = "c1"
    /\ Category(regCall.result) = "customRender"

\* C21: initializeAllAceModes calls initializeAceMode of every handler of the
\* list that has one, also of those that come after a handler whose
\* initializeAceMode threw, and does not throw itself.
C21_InitAllIsolatesFailures ==
    regCall.op = "initializeAll" =>
        /\ ~regCall.threw
        /\ \A i \in 1..Len(handlers) :
              aceInitCalls[handlers[i]] = IF regCall.kinds[i] = "none" THEN 0 ELSE 1

C21_Witness ==
    /\ regCall.op = "initializeAll"
    /\ regCall.kinds = <<"throws", "ok">>
    /\ aceInitCalls["typst"] = 1
    /\ ~regCall.threw

-----------------------------------------------------------------------------
(* JSON preview: the json case of the web handler's generatePreview and    *)
(* previewHandlers.json.handler.  A file's content is a sequence of tokens; *)
(* a JSON string literal is one token.                                      *)

JsonWhitespace == {" ", "  ", "\n", "\t"}
JsonStrings    == {"\"a\"", "\"b\"", "\"<b>\""}
JsonScalars    == JsonStrings \cup {"1", "2", "null", "true"}

\* the tokens of s that are not whitespace between JSON tokens
StripWhitespace(s) == SelectSeq(s, LAMBDA t : t \notin JsonWhitespace)

\* the indentation of JSON.stringify(value, null, 2) at a nesting depth
RECURSIVE Indent(_)
Indent(d) == IF d = 0 THEN <<>> ELSE <<"  ">> \o Indent(d - 1)

ParseFail == [ok |-> FALSE, next |-> 0, out |-> <<>>]

\* JSON.parse followed by JSON.stringify(parsed, null, 2), in one pass over
\* the tokens of s from position i: ok says a value was read, next is the
\* position after it and out is its 2-space form at nesting depth d.  The
\* keys of an object are taken to be distinct.
RECURSIVE ParseValue(_, _, _)
RECURSIVE ParseItems(_, _, _)
RECURSIVE ParseMembers(_, _, _)
ParseValue(s, i, d) ==
    IF i > Len(s) THEN ParseFail
    ELSE IF s[i] \in JsonScalars
    THEN [ok |-> TRUE, next |-> i + 1, out |-> <<s[i]>>]
    ELSE IF s[i] \in {"[", "{"}
    THEN LET close == IF s[i] = "[" THEN "]" ELSE "}" IN
         IF i + 1 <= Len(s) /\ s[i + 1] = close
         THEN [ok |-> TRUE, next |-> i + 2, out |-> <<s[i], close>>]
         ELSE LET r == IF s[i] = "[" THEN ParseItems(s, i + 1, d + 1)
                       ELSE ParseMembers(s, i + 1, d + 1) IN
              IF r.ok
              THEN [ok |-> TRUE, next |-> r.next,
                    out |-> <<s[i]>> \o r.out \o <<"\n">> \o Indent(d) \o <<close>>]
              ELSE ParseFail
    ELSE ParseFail

ParseItems(s, i, d) ==
    LET v == ParseValue(s, i, d) IN
    IF ~v.ok \/ v.next > Len(s) THEN ParseFail
    ELSE IF s[v.next] = "]"
    THEN [ok |-> TRUE, next |-> v.next + 1, out |-> <<"\n">> \o Indent(d) \o v.out]
    ELSE IF s[v.next] = ","
    THEN LET r == ParseItems(s, v.next + 1, d) IN
         IF r.ok
         THEN [ok |-> TRUE, next |-> r.next,
               out |-> <<"\n">> \o Indent(d) \o v.out \o <<",">> \o r.out]
         ELSE ParseFail
    ELSE ParseFail

ParseMembers(s, i, d) ==
    IF i + 1 > Len(s) \/ s[i] \notin JsonStrings \/ s[i + 1] # ":" THEN ParseFail
    ELSE LET v == ParseValue(s, i + 2, d)
             member == <<"\n">> \o Indent(d) \o <<s[i], ":", " ">> \o v.out IN
         IF ~v.ok \/ v.next > Len(s) THEN ParseFail
         ELSE IF s[v.next] = "}"
         THEN [ok |-> TRUE, next |-> v.next + 1, out |-> member]
         ELSE IF s[v.next] = ","
         THEN LET r == ParseMembers(s, v.next + 1, d) IN
              IF r.ok
              THEN [ok |-> TRUE, next |-> r.next, out |-> member \o <<",">> \o r.out]
              ELSE ParseFail
         ELSE ParseFail

\* does JSON.parse(fileContent) return?
JSONparseOk(fileContent) ==
    LET s == StripWhitespace(fileContent)
        r == ParseValue(s, 1, 0) IN
    r.ok /\ r.next = Len(s) + 1

\* JSON.stringify(JSON.parse(fileContent), null, 2)
JSONstringify2(fileContent) == ParseValue(StripWhitespace(fileContent), 1, 0).out

\* variant: the catch block puts the error's name in the place of the text
formattedJsonErrorText(fileContent) ==
    IF JSONparseOk(fileContent) THEN JSONstringify2(fileContent)
    ELSE <<"SyntaxError">>

\* formattedJson: try { parse, stringify } catch { formattedJson = fileContent }
formattedJson(fileContent) ==
    IF JSONparseOk(fileContent) THEN JSONstringify2(fileContent)
    ELSE fileContent

\* .replace(/</g, '&lt;').replace(/>/g, '&gt;') on one token
EscapeToken(t) ==
    CASE t = "<"       -> "&lt;"
      [] t = ">"       -> "&gt;"
      [] t = "\"<b>\"" -> "\"&lt;b&gt;\""
      [] OTHER         -> t

EscapeAngles(s) == [i \in 1..Len(s) |-> EscapeToken(s[i])]

\* .replace(/</g, '<').replace(/>/g, '>') of the web handler: each angle
\* bracket is replaced by itself
ReplaceAnglesByThemselves(s) == s

\* the json case of the web handler's generatePreview
WebJsonPreview(fileName, fileContent) ==
    [type |-> "html", url |-> "undefined",
     content |-> [template |-> "json", title |-> fileName, filename |-> fileName,
                  jsonContent |-> ReplaceAnglesByThemselves(formattedJson(fileContent))]]

\* previewHandlers.json.handler
PreviewHandlersJson(fileContent, fileName) ==
    [type |-> "html", url |-> "null",
     content |-> [template |-> "json", title |-> fileName, filename |-> fileName,
                  jsonContent |-> EscapeAngles(formattedJson(fileContent))]]

\* fileContent.replace(/`/g, '\\`').replace(/\$/g, '\\$'): a backslash is put
\* before every backtick and every dollar sign, nothing else changes
\* (the three characters are written by name)
Backtick == "backtick"
Dollar == "dollar"
Backslash == "backslash"

RECURSIVE EscapeForTemplate(_)
EscapeForTemplate(s) ==
    IF s = <<>> THEN <<>>
    ELSE (IF Head(s) \in {Backtick, Dollar} THEN <<Backslash, Head(s)>> ELSE <<Head(s)>>)
         \o EscapeForTemplate(Tail(s))

\* the js case of the web handler's generatePreview: the source shown in
\* pre.code and the source inside the template literal given to eval
WebJsPreview(fileName, fileContent) ==
    [type |-> "html", url |-> "undefined",
     content |-> [template |-> "js", title |-> fileName, filename |-> fileName,
                  code |-> ReplaceAnglesByThemselves(fileContent),
                  evalLiteral |-> EscapeForTemplate(fileContent)]]

\* previewHandlers.javascript.handler
PreviewHandlersJs(fileContent, fileName) ==
    [type |-> "html", url |-> "null",
     content |-> [template |-> "js", title |-> fileName, filename |-> fileName,
                  code |-> EscapeAngles(fileContent),
                  evalLiteral |-> EscapeForTemplate(fileContent)]]

JsNames == {<<"script", ".", "js">>, <<"a", ".", "JS">>}

JsonNames == {<<"data", ".", "json">>, <<"a", ".", "b", ".", "json">>,
              <<"<", ".", "json">>}

JsonContents ==
    {<<"1">>, <<"null">>, <<"\"a\"">>, <<"\"<b>\"">>, <<"[", "]">>, <<"{", "}">>,
     <<"[", "1", ",", "2", "]">>,
     <<"[", "[", "1", "]", ",", "{", "}", "]">>,
     <<"{", "\"a\"", ":", "1", "}">>,
     <<"{", "\"a\"", ":", "1", ",", "\"b\"", ":", "null", "}">>,
     <<"{", "\"a\"", ":", "[", "\"<b>\"", "]", "}">>,
     <<"{", "\n", "  ", "\"a\"", ":", " ", "1", "\n", "}">>,
     <<" ", "[", "\t", "1", "]", "\n">>,
     <<>>, <<" ">>,
     <<"{", "bad", " ", "json">>,
     <<"[", "1", ",", "]">>,
     <<"{", "\"a\"", ":", "1", ",", "}">>,
     <<"{", "a", ":", "1", "}">>,
     <<"{", "\"a\"", "1", "}">>,
     <<"{", "1", ":", "1", "}">>,
     <<"<", "b", ">">>,
     <<"1", " ", "2">>,
     <<"[", "1">>,
     <<"[", "1", "]", "]">>,
     <<"undefined">>, <<"'a'">>}

PreviewInit ==
    /\ windowAce = TRUE
    /\ aceModeInitialized = [h \in Handlers |-> FALSE]
    /\ aceInitCalls = [h \in Handlers |-> 0]
    /\ lazyInitCalls = [h \in Handlers |-> 0]
    /\ modeScripts = 0
    /\ \E fileName \in JsonNames \cup JsNames, fileContent \in JsonContents :
          regCall = [op |-> "inputPreview", fileName |-> fileName,
                     fileContent |-> fileContent]
    /\ SwInit
    /\ AppInit

\* generatePreview of the web handler for a file the switch sends to 'json'
CallWebJsonPreview ==
    /\ regCall.op = "inputPreview"
    /\ ExtensionOf(regCall.fileName) = <<"json">>
    /\ regCall' = [op |-> "jsonPreview", impl |-> "webHandler",
                   fileName |-> regCall.fileName, fileContent |-> regCall.fileContent,
                   result |-> WebJsonPreview(regCall.fileName, regCall.fileContent)]
    /\ UNCHANGED <<windowAce, aceModeInitialized, aceInitCalls, lazyInitCalls,
                   modeScripts>>

\* generatePreviewContent of preview-handlers.js for an extension the map
\* sends to the json handler
CallPreviewHandlersJson ==
    /\ regCall.op = "inputPreview"
    /\ ExtensionOf(regCall.fileName) = <<"json">>
    /\ regCall' = [op |-> "jsonPreview", impl |-> "previewHandlers",
                   fileName |-> regCall.fileName, fileContent |-> regCall.fileContent,
                   result |-> PreviewHandlersJson(regCall.fileContent, regCall.fileName)]
    /\ UNCHANGED <<windowAce, aceModeInitialized, aceInitCalls, lazyInitCalls,
                   modeScripts>>

\* generatePreview of the web handler for a file the switch sends to 'js'
CallWebJsPreview ==
    /\ regCall.op = "inputPreview"
    /\ ExtensionOf(regCall.fileName) \in {<<"js">>, <<"javascript">>}
    /\ regCall' = [op |-> "jsPreview", impl |-> "webHandler",
                   fileName |-> regCall.fileName, fileContent |-> regCall.fileContent,
                   result |-> WebJsPreview(regCall.fileName, regCall.fileContent)]
    /\ UNCHANGED <<windowAce, aceModeInitialized, aceInitCalls, lazyInitCalls,
                   modeScripts>>

\* generatePreviewContent of preview-handlers.js for an extension the map
\* sends to the javascript handler
CallPreviewHandlersJs ==
    /\ regCall.op = "inputPreview"
    /\ ExtensionOf(regCall.fileName) \in {<<"js">>, <<"javascript">>}
    /\ regCall' = [op |-> "jsPreview", impl |-> "previewHandlers",
                   fileName |-> regCall.fileName, fileContent |-> regCall.fileContent,
                   result |-> PreviewHandlersJs(regCall.fileContent, regCall.fileName)]
    /\ UNCHANGED <<windowAce, aceModeInitialized, aceInitCalls, lazyInitCalls,
                   modeScripts>>

PreviewNext ==
    \/ CallWebJsonPreview /\ UNCHANGED <<swVars, appVars>>
    \/ CallPreviewHandlersJson /\ UNCHANGED <<swVars, appVars>>
    \/ CallWebJsPreview /\ UNCHANGED <<swVars, appVars>>
    \/ CallPreviewHandlersJs /\ UNCHANGED <<swVars, appVars>>

SpecPreview == PreviewInit /\ [][PreviewNext]_vars

\* what JSON.stringify(JSON.parse(text), null, 2) is for the texts of
\* JsonContents that are JSON, written out by hand
PrettyJson ==
    {<< <<"1">>, <<"1">> >>, << <<"null">>, <<"null">> >>,
     << <<"\"a\"">>, <<"\"a\"">> >>, << <<"\"<b>\"">>, <<"\"<b>\"">> >>,
     << <<"[", "]">>, <<"[", "]">> >>, << <<"{", "}">>, <<"{", "}">> >>,
     << <<"[", "1", ",", "2", "]">>,
        <<"[", "\n", "  ", "1", ",", "\n", "  ", "2", "\n", "]">> >>,
     << <<"[", "[", "1", "]", ",", "{", "}", "]">>,
        <<"[", "\n", "  ", "[", "\n", "  ", "  ", "1", "\n", "  ", "]", ",",
          "\n", "  ", "{", "}", "\n", "]">> >>,
     << <<"{", "\"a\"", ":", "1", "}">>,
        <<"{", "\n", "  ", "\"a\"", ":", " ", "1", "\n", "}">> >>,
     << <<"{", "\"a\"", ":", "1", ",", "\"b\"", ":", "null", "}">>,
        <<"{", "\n", "  ", "\"a\"", ":", " ", "1", ",",
          "\n", "  ", "\"b\"", ":", " ", "null", "\n", "}">> >>,
     << <<"{", "\"a\"", ":", "[", "\"<b>\"", "]", "}">>,
        <<"{", "\n", "  ", "\"a\"", ":", " ", "[", "\n", "  ", "  ", "\"<b>\"",
          "\n", "  ", "]", "\n", "}">> >>,
     << <<"{", "\n", "  ", "\"a\"", ":", " ", "1", "\n", "}">>,
        <<"{", "\n", "  ", "\"a\"", ":", " ", "1", "\n", "}">> >>,
     << <<" ", "[", "\t", "1", "]", "\n">>,
        <<"[", "\n", "  ", "1", "\n", "]">> >>}

\* the text the claim expects in the document: the 2-space form of a text
\* that is JSON, the text itself otherwise
ExpectedJsonText(text) ==
    IF \E p \in PrettyJson : p[1] = text
    THEN (CHOOSE p \in PrettyJson : p[1] = text)[2]
    ELSE text

\* a document embeds a text when the text stands in it as written or with
\* its angle brackets written as entities
Embeds(doc, text) ==
    doc.jsonContent = text \/ doc.jsonContent = EscapeAngles(text)

\* C22: the JSON preview never throws: it returns a static HTML document
\* that embeds the 2-space pretty-printed form of a content that parses as
\* JSON and the original text of a content that does not parse
C22_JsonPreviewNeverThrows ==
    regCall.op = "jsonPreview" =>
        /\ regCall.result.type = "html"
        /\ regCall.result.content.template = "json"
        /\ Embeds(regCall.result.content, ExpectedJsonText(regCall.fileContent))

C22_Witness ==
    /\ regCall.op = "jsonPreview"
    /\ regCall.fileContent = <<"[", "1", ",", "]">>
    /\ regCall.result.type = "html"
    /\ regCall.result.content.jsonContent = <<"[", "1", ",", "]">>

\* this step is a caller's `await ensureTypstInitialized()` resolving to false
EnsureReportsFailure ==
    \/ ev'.op = "importDone" /\ ~ev'.ok
    \/ ev'.op = "initDone" /\ ~ev'.ok
    \/ ev'.op = "pollTick" /\ ~ev'.ensured

CompilesWaiting(js) == Len(SelectSeq(js, LAMBDA j : j.pc \in {"compile", "svg"}))

\* C23: when ensureTypstInitialized reports failure the caller writes an
\* error message to the diagnostics, starts no compile, ends there (its
\* pipeline is gone) and leaves the output as it was
C23_LoadFailureShowsError ==
    [][EnsureReportsFailure =>
          /\ diagnostics' \in {"LoadFailed", "LoadFailedCheckConsole"}
          /\ CompilesWaiting(jobs') = CompilesWaiting(jobs)
          /\ Len(jobs') = Len(jobs) - 1
          /\ output' = output]_vars

C23_Witness ==
    /\ ev.op = "initDone"
    /\ ~ev.ok
    /\ diagnostics = "LoadFailedCheckConsole"
    /\ jobs = <<>>

\* C24: the diagnostics reflect the compile outcome: a step that starts a
\* compile leaves the compiling message, and a step in which a compile
\* ends without a result or throws leaves error text, never the success
\* message
C24_DiagnosticsReflectCompile ==
    [][/\ CompilesWaiting(jobs') > CompilesWaiting(jobs) => diagnostics' = "Compiling"
       /\ (ev'.op = "compileDone" /\ ev'.r # "result") => diagnostics' # "NoErrors"]_vars

\* C25: when a compile completes without a result the output holds the
\* inline failure message and nothing else, so an artifact rendered before
\* is no longer shown
C25_NoResultReplacesOutput ==
    [][(ev'.op = "compileDone" /\ ev'.r = "noResult") => output' = "failed"]_vars

C25_Witness ==
    /\ ev.op = "compileDone"
    /\ ev.r = "noResult"
    /\ ev.hadSvg
    /\ output = "failed"

\* C26: while the previewed file stays the same, a zoom the user has set is
\* kept by every successful render that an edit started, one that follows a
\* failed compile included
C26_EditRenderKeepsZoom ==
    [][(ev'.op = "renderDone" /\ ev'.ok /\ ev'.preserveZoom /\ zoomChosen)
          => zoomLevel' = zoomLevel]_vars

\* C27: no flicker: the step of renderTypst that puts the new artifact in
\* the output also applies the zoom to it, so the state every other event
\* finds has the artifact scaled by the zoom factor
C27_NoFlicker ==
    [][(ev'.op = "renderDone" /\ ev'.ok) =>
          /\ output' = "svg"
          /\ zoomLevel'.k = "num"
          /\ svgScale' = zoomLevel'.v]_vars

C27_Witness ==
    /\ ev.op = "renderDone"
    /\ ev.ok
    /\ ev.preserveZoom
    /\ ev.hadSvg
    /\ output = "svg"
    /\ svgScale = zoomLevel.v
    /\ svgScale \notin {InitialZoom, DefaultZoom}

\* C28: alignment invariant: whenever the output shows a rendered artifact
\* its text alignment is "center" if the zoom factor is exactly 1.0 and
\* "left" otherwise
C28_AlignmentFollowsZoom ==
    output = "svg" =>
        /\ textAlign \in {"center", "left"}
        /\ textAlign = "center" <=> zoomLevel = [k |-> "num", v |-> 1000]

C28_Witness ==
    /\ output = "svg"
    /\ zoomLevel = [k |-> "num", v |-> 1000]
    /\ textAlign = "center"
    /\ ev.op \in {"fitToWidth", "renderDone"}

-----------------------------------------------------------------------------
(* The page and the worker together: the updateFile messages a push posts   *)
(* are delivered to the worker's message listener in the order of posting.  *)
(* In the table of this composition a content is kept as a document: a      *)
(* string as it is (template "none"), a generated page by its template.     *)

RawDocument(content) == [template |-> "none", name |-> <<>>, content |-> content]

\* previewContent.content as a string: an html file's own content, or the
\* page the template makes around the file
PreviewDocument(preview) ==
    IF preview.template = "none" THEN RawDocument(preview.content) ELSE preview

\* the last message of each run of waitForServiceWorker is the one for
\* preview.html; perRun is the number of messages of a run
WireContent(msgs, i, perRun) ==
    IF i % perRun = 0 THEN PreviewDocument(msgs[i].content)
    ELSE RawDocument(ContentOrEmpty(msgs[i].content))

\* variant: a table of at most four entries, a new name evicting an old one
TableSetCapped(t, fileName, document) ==
    LET kept == IF fileName \in DOMAIN t \/ Cardinality(DOMAIN t) < 4 THEN DOMAIN t
                ELSE DOMAIN t \ {CHOOSE n \in DOMAIN t : TRUE} IN
    [n \in kept \cup {fileName} |-> IF n = fileName THEN document ELSE t[n]]

\* files.set(fileName, content || '') on a table t
TableSet(t, fileName, document) ==
    [n \in DOMAIN t \cup {fileName} |-> IF n = fileName THEN document ELSE t[n]]

\* the table after the message listener handled msgs[i], msgs[i+1], ...
RECURSIVE TableAfterMessages(_, _, _, _)
TableAfterMessages(t, msgs, i, perRun) ==
    IF i > Len(msgs) THEN t
    ELSE TableAfterMessages(TableSet(t, msgs[i].fileName, WireContent(msgs, i, perRun)),
                            msgs, i + 1, perRun)

\* messages the last page event posted that the worker has not handled yet
Undelivered == "posted" \in DOMAIN ev /\ ev.posted # <<>>

\* the worker's message listener handles the posted messages, oldest first
DeliverPosted ==
    /\ Undelivered
    /\ files' = TableAfterMessages(files, ev.posted, 1,
                                   Cardinality(DOMAIN projectFiles) + 1)
    /\ swOut' = [kind |-> "fileUpdated", fileName |-> ev.posted[Len(ev.posted)].fileName]
    /\ ev' = [op |-> "delivered", batch |-> ev.posted, by |-> ev.op]
    /\ UNCHANGED <<sent, userEvents, projectFiles, activePreviewFileId, activeTab,
                   openTabs, swActive, pendingPushes, startupTimer, previewMode,
                   typstCompiler, typstReady, isTypstInitializing, jobs, diagnostics>>
    /\ UNCHANGED viewVars

\* GET of a preview path: the fetch listener answers from the table
FetchPreview(url) ==
    /\ swOut' = FetchResult(Pathname(url)) @@ [url |-> url, pathname |-> Pathname(url)]
    /\ ev' = [op |-> "fetch"]
    /\ UNCHANGED <<files, sent, userEvents, projectFiles, activePreviewFileId, activeTab,
                   openTabs, swActive, pendingPushes, startupTimer, previewMode,
                   typstCompiler, typstReady, isTypstInitializing, jobs, diagnostics>>
    /\ UNCHANGED viewVars

\* names typed for a new file and for a rename, and the paths requested
PushNewInputs == {PreviewHtml, <<"notes", ".", "txt">>}
PushRenameInputs == {<<"style", ".", "css">>, <<"notes", ".", "txt">>}
PushFetchUrls == {PreviewPrefix \o n :
                     n \in {IndexHtml, <<"style", ".", "css">>, <<"notes", ".", "txt">>}}

\* page events are taken once the worker has handled what was posted: the
\* order of handling is the order of posting, so the table after a batch
\* does not depend on what the page does meanwhile
PushNext ==
    \/ ~Undelivered /\ ServiceWorkerActivates /\ UNCHANGED libVars
    \/ ~Undelivered /\ PollPush /\ UNCHANGED libVars
    \/ ~Undelivered /\ StartupTimerFires /\ UNCHANGED libVars
    \/ ~Undelivered /\ \E content \in Contents : EditorChange(content) /\ UNCHANGED libVars
    \/ ~Undelivered /\ \E input \in PushNewInputs : CreateNewFile(input) /\ UNCHANGED libVars
    \/ ~Undelivered /\ \E fileId \in DOMAIN projectFiles, nextTab \in DOMAIN projectFiles \cup {"none"} :
                          deleteFile(fileId, nextTab) /\ UNCHANGED libVars
    \/ ~Undelivered /\ \E fileId \in DOMAIN projectFiles, newName \in PushRenameInputs :
                          commitRename(fileId, newName) /\ UNCHANGED libVars
    \/ DeliverPosted /\ UNCHANGED regVars
    \/ ~Undelivered /\ \E url \in PushFetchUrls : FetchPreview(url) /\ UNCHANGED regVars

SpecPush == AppSpecInit /\ [][PushNext]_vars

\* the messages of one regeneration as the claim lists them: one per
\* current file, then the one for the reserved name
IsRegeneration(msgs) ==
    LET ids == ValuesOf(projectFiles) IN
    /\ Len(msgs) = Len(ids) + 1
    /\ \A i \in 1..Len(ids) :
          msgs[i] = [fileName |-> projectFiles[ids[i]].name,
                     content |-> projectFiles[ids[i]].content]
    /\ msgs[Len(msgs)].fileName = PreviewHtml
    /\ msgs[Len(msgs)].content =
          generatePreviewContent(projectFiles[activePreviewFileId].name,
                                 projectFiles[activePreviewFileId].content)

\* the table maps every current file name to the file's content and the
\* reserved name to the page generated from the previewed file
TableHasProject ==
    /\ \A id \in DOMAIN projectFiles :
          /\ projectFiles[id].name \in DOMAIN files
          /\ files[projectFiles[id].name] = RawDocument(projectFiles[id].content)
    /\ PreviewHtml \in DOMAIN files
    /\ files[PreviewHtml] =
          PreviewDocument(generatePreviewContent(projectFiles[activePreviewFileId].name,
                                                 projectFiles[activePreviewFileId].content))

\* C29: each regeneration posts one updateFile per current project file and
\* one for the reserved preview name with the generated page, and once the
\* worker has handled them its table maps every current file name to its
\* current content and the reserved name to the generated page
C29_PushFillsTable ==
    ev.op = "delivered" =>
        /\ LET perRun == Cardinality(DOMAIN projectFiles) + 1 IN
           /\ Len(ev.batch) % perRun = 0
           /\ \A k \in 0..((Len(ev.batch) \div perRun) - 1) :
                 IsRegeneration(SubSeq(ev.batch, k * perRun + 1, (k + 1) * perRun))
        /\ TableHasProject

\* the names the messages of a batch write
WrittenNames(msgs) == {msgs[i].fileName : i \in 1..Len(msgs)}

\* C30: the worker's table never loses an entry: no step removes a key,
\* only the messages handled change the entries they name, and a request
\* for a name in the table is answered with its entry, the name of a file
\* deleted or renamed in the project included
C30_TableNeverLosesEntry ==
    [][/\ DOMAIN files \subseteq DOMAIN files'
       /\ ev'.op # "delivered" => files' = files
       /\ ev'.op = "delivered" =>
             \A n \in DOMAIN files \ WrittenNames(ev'.batch) : files'[n] = files[n]
       /\ (ev'.op = "fetch" /\ FilePathOf(swOut'.pathname) \in DOMAIN files) =>
             /\ swOut'.kind = "response"
             /\ swOut'.served = FilePathOf(swOut'.pathname)
             /\ swOut'.body = files[FilePathOf(swOut'.pathname)]]_vars

C30_Witness ==
    /\ ev.op = "fetch"
    /\ swOut.kind = "response"
    /\ swOut.served = <<"style", ".", "css">>
    /\ swOut.served \notin NamesOf(projectFiles)
    /\ swOut.body = RawDocument("c0")

-----------------------------------------------------------------------------
(* The polling wait of updatePreviewFiles: the 100 ms timer of a pending   *)
(* waitForServiceWorker keeps firing, so a tick that finds the worker      *)
(* active is taken; nothing obliges the worker to become active.           *)

PollNext ==
    \/ ServiceWorkerActivates /\ UNCHANGED libVars
    \/ PollPush /\ UNCHANGED libVars
    \/ StartupTimerFires /\ UNCHANGED libVars
    \/ \E content \in Contents : EditorChange(content) /\ UNCHANGED libVars
    \/ \E input \in PushNewInputs : CreateNewFile(input) /\ UNCHANGED libVars
    \/ \E fileId \in DOMAIN projectFiles, nextTab \in DOMAIN projectFiles \cup {"none"} :
          deleteFile(fileId, nextTab) /\ UNCHANGED libVars

SpecPoll == AppSpecInit /\ [][PollNext]_vars /\ WF_vars(PollPush /\ UNCHANGED libVars)

\* C31: no updateFile message is posted while the worker is not active and
\* no pending updatePreviewFiles call resolves then; once the worker is
\* active every pending call resolves, after posting its messages, or
\* without any when the preview target is missing
C31_PollingWait ==
    /\ [](~swActive => ("posted" \in DOMAIN ev => ev.posted = <<>>))
    /\ [][~swActive' => pendingPushes' >= pendingPushes]_vars
    /\ [][ev'.op = "push" =>
             /\ pendingPushes' = pendingPushes - 1
             /\ ev'.posted = <<>> <=> activePreviewFileId \notin DOMAIN projectFiles]_vars
    /\ (swActive ~> pendingPushes = 0)

C31_Witness ==
    /\ ev.op = "push"
    /\ ev.posted # <<>>
    /\ swActive
    /\ pendingPushes = 0
    /\ userEvents > 0

\* C32: a new-file commit whose trimmed name is empty or equals the name of
\* an existing file adds no file and leaves the project, the preview target
\* and the worker's table as they were, with no message on the way; a file
\* is only ever added under a non-empty name no file has
C32_DuplicateCreateRejected ==
    [][/\ ev'.op = "createRefused" =>
             /\ projectFiles' = projectFiles
             /\ activePreviewFileId' = activePreviewFileId
             /\ files' = files
             /\ pendingPushes' = pendingPushes
       /\ ev'.op = "create" =>
             /\ DOMAIN projectFiles' = DOMAIN projectFiles \cup {ev'.file}
             /\ ev'.file \notin DOMAIN projectFiles
             /\ projectFiles'[ev'.file].name # <<>>
             /\ projectFiles'[ev'.file].name \notin NamesOf(projectFiles)]_vars

C32_Witness ==
    /\ ev.op = "createRefused"
    /\ ev.input = <<"index", ".", "html">>
    /\ Cardinality(DOMAIN projectFiles) = 3

\* the tokens that hold a raw angle bracket
RawAngleTokens == {"<", ">", "\"<b>\""}

HasRawAngle(s) == \E i \in 1..Len(s) : s[i] \in RawAngleTokens

\* the region of a generated document that displays the user content
DisplayedRegion(doc) == IF doc.template = "js" THEN doc.code ELSE doc.jsonContent

\* C33: in the JS and JSON previews of the web handler the displayed region
\* holds no raw '<' or '>' of the user content: each is written as its
\* HTML entity
C33_AnglesEscaped ==
    (regCall.op \in {"jsPreview", "jsonPreview"} /\ regCall.impl = "webHandler") =>
        ~HasRawAngle(DisplayedRegion(regCall.result.content))

-----------------------------------------------------------------------------
(* The generated JS preview: the source inside eval(`...`) as the browser   *)
(* reads it.  A source is a sequence of characters.                         *)

MaxSourceLen == 3

SourceChars == {Backtick, Dollar, Backslash, "{", "a"}

JsSources == UNION {[1..n -> SourceChars] : n \in 0..MaxSourceLen}

\* the template literal `text` of the generated script, read from position
\* i with the characters cooked so far: a backslash takes the next character
\* with it (the closing backtick when it is the last one of text), a bare
\* backtick ends the literal and a bare ${ opens a substitution
RECURSIVE TemplateValue(_, _, _)
TemplateValue(text, i, cooked) ==
    IF i > Len(text) THEN [kind |-> "string", value |-> cooked]
    ELSE IF text[i] = Backslash
    THEN IF i = Len(text) THEN [kind |-> "unterminated", value |-> cooked]
         ELSE TemplateValue(text, i + 2, Append(cooked, text[i + 1]))
    ELSE IF text[i] = Backtick THEN [kind |-> "endsEarly", value |-> cooked]
    ELSE IF text[i] = Dollar /\ i < Len(text) /\ text[i + 1] = "{"
    THEN [kind |-> "substitution", value |-> cooked]
    ELSE TemplateValue(text, i + 1, Append(cooked, text[i]))

EmbedInit ==
    /\ windowAce = TRUE
    /\ aceModeInitialized = [h \in Handlers |-> FALSE]
    /\ aceInitCalls = [h \in Handlers |-> 0]
    /\ lazyInitCalls = [h \in Handlers |-> 0]
    /\ modeScripts = 0
    /\ \E source \in JsSources : regCall = [op |-> "inputSource", source |-> source]
    /\ SwInit
    /\ AppInit

\* the page is generated from the source and the browser reads its script
EmbedSource ==
    /\ regCall.op = "inputSource"
    /\ regCall' = [op |-> "embedded", source |-> regCall.source,
                   literal |-> WebJsPreview(<<"script", ".", "js">>, regCall.source)
                                  .content.evalLiteral,
                   evaluated |-> TemplateValue(
                       WebJsPreview(<<"script", ".", "js">>, regCall.source)
                          .content.evalLiteral, 1, <<>>)]
    /\ UNCHANGED <<windowAce, aceModeInitialized, aceInitCalls, lazyInitCalls,
                   modeScripts>>

EmbedNext == EmbedSource /\ UNCHANGED <<swVars, appVars>>

SpecEmbed == EmbedInit /\ [][EmbedNext]_vars

\* C35: the escaping keeps every source inside the wrapper template literal
\* and the string the literal evaluates to is the source
C35_TemplateEmbeddingFaithful ==
    regCall.op = "embedded" =>
        regCall.evaluated = [kind |-> "string", value |-> regCall.source]

-----------------------------------------------------------------------------
(* runCode of the generated JS preview.  The user source is a list of      *)
(* statements; console.log is known by the number of runCode wrappers       *)
(* around the function the page started with.                               *)

MaxProgramLen == 3
MaxRuns == 2

\* console.log(1); throw new Error(..); throw null; any other statement
Statements == {"log", "throwError", "throwNull", "other"}

Programs == UNION {[1..n -> Statements] : n \in 0..MaxProgramLen}

\* eval of the source from statement i with `wrappers` wrappers installed:
\* each wrapper a call of console.log goes through appends the line to the
\* console region; a throw ends the evaluation
RECURSIVE Eval(_, _, _, _)
Eval(program, i, wrappers, out) ==
    IF i > Len(program) THEN [out |-> out, threw |-> "nothing"]
    ELSE IF program[i] = "log"
    THEN Eval(program, i + 1, wrappers, out \o [k \in 1..wrappers |-> "1"])
    ELSE IF program[i] = "throwError" THEN [out |-> out, threw |-> "error"]
    ELSE IF program[i] = "throwNull" THEN [out |-> out, threw |-> "null"]
    ELSE Eval(program, i + 1, wrappers, out)

RunInit ==
    /\ windowAce = TRUE
    /\ aceModeInitialized = [h \in Handlers |-> FALSE]
    /\ aceInitCalls = [h \in Handlers |-> 0]
    /\ lazyInitCalls = [h \in Handlers |-> 0]
    /\ modeScripts = 0
    /\ \E program \in Programs :
          regCall = [op |-> "page", program |-> program, wrappers |-> 0,
                     output |-> <<"ClickRun">>, firstOutput |-> <<>>,
                     returned |-> TRUE, runs |-> 0]
    /\ SwInit
    /\ AppInit

\* a click on "Run Code".  The catch block reads error.message, which
\* throws when the value thrown is null; the assignment that puts
\* originalLog back follows the try statement
runCode ==
    LET before == regCall.wrappers
        r == Eval(regCall.program, 1, before + 1, <<>>)
        innerHTML == CASE r.threw = "null"    -> r.out
                    [] r.threw = "error"   -> <<"Error">>
                    [] r.out = <<>>        -> <<"NoOutput">>
                    [] OTHER               -> r.out
    IN
    /\ regCall.op \in {"page", "ran"}
    /\ regCall.runs < MaxRuns
    /\ regCall' = [op |-> "ran", program |-> regCall.program,
                   wrappers |-> IF r.threw = "null" THEN before + 1 ELSE before,
                   output |-> innerHTML,
                   firstOutput |-> IF regCall.runs = 0 THEN innerHTML ELSE regCall.firstOutput,
                   returned |-> r.threw # "null",
                   runs |-> regCall.runs + 1]
    /\ UNCHANGED <<windowAce, aceModeInitialized, aceInitCalls, lazyInitCalls,
                   modeScripts>>

RunNext == runCode /\ UNCHANGED <<swVars, appVars>>

SpecRun == RunInit /\ [][RunNext]_vars

\* C34: after a run of any source, whether it ran to its end or threw,
\* console.log is the function installed before the run, and a later run
\* clears the console region and writes it again as the first run did
C34_RunRestoresLogging ==
    regCall.op = "ran" =>
        /\ regCall.returned
        /\ regCall.wrappers = 0
        /\ regCall.output = regCall.firstOutput

-----------------------------------------------------------------------------
\* C36: every file of the project is stored under the key equal to its id,
\* and no edit, rename, create, import or delete changes the id of a file
\* that stays in the project
C36_FileIdsStable ==
    /\ [](\A k \in DOMAIN projectFiles : projectFiles[k].id = k)
    /\ [][\A k \in DOMAIN projectFiles \cap DOMAIN projectFiles' :
             projectFiles'[k].id = projectFiles[k].id]_vars

\* a renamed and edited initial file next to a created one, after a delete
C36_Witness ==
    /\ "htmlFile" \in DOMAIN projectFiles
    /\ projectFiles["htmlFile"].name # InitialName("htmlFile")
    /\ projectFiles["htmlFile"].content # "c0"
    /\ "cssFile" \notin DOMAIN projectFiles
    /\ \E i \in 1..MaxNewFiles : NewFileIds[i] \in DOMAIN projectFiles
    /\ ev.op = "rename"

-----------------------------------------------------------------------------
\* the step that ended a wait for the compiler went on to renderTypst, which
\* reached typstCompiler.compile
CompileBegunAfterWait ==
    \/ ev.op = "initDone" /\ ev.ok /\ ~ev.threw
    \/ ev.op = "pollTick" /\ ev.ensured /\ ~ev.threw

\* C37: a typst compile that starts when a wait for the compiler ends has a
\* typst file as its main file, also when the preview target was switched
\* to a static file during the wait
C37_CompileOnlyTypstTarget ==
    CompileBegunAfterWait =>
        /\ ev.mainFileId \in DOMAIN projectFiles
        /\ projectFiles[ev.mainFileId].type = "typst"

-----------------------------------------------------------------------------
\* the preview target and the pane shown for it: the operations that choose
\* the target, delete files and rename them, with the renders they start
ModeNext ==
    \/ ServiceWorkerActivates /\ UNCHANGED libVars
    \/ PollPush /\ UNCHANGED libVars
    \/ StartupTimerFires /\ UNCHANGED libVars
    \/ \E fileId \in DOMAIN projectFiles : SelectPreviewFile(fileId) /\ UNCHANGED libVars
    \/ \E fileId \in DOMAIN projectFiles, nextTab \in DOMAIN projectFiles \cup {"none"} :
          deleteFile(fileId, nextTab) /\ UNCHANGED libVars
    \/ \E fileId \in DOMAIN projectFiles, newName \in RenameInputs :
          commitRename(fileId, newName) /\ UNCHANGED libVars
    \/ \E s \in 1..MaxJobs, ok \in BOOLEAN : ImportDone(s, ok) /\ UNCHANGED libVars
    \/ \E s \in 1..MaxJobs, ok \in BOOLEAN : InitDone(s, ok) /\ UNCHANGED libVars
    \/ \E s \in 1..MaxJobs : PollTick(s) /\ UNCHANGED libVars
    \/ \E s \in 1..MaxJobs, r \in CompileResults : CompileDone(s, r) /\ UNCHANGED libVars
    \/ \E s \in 1..MaxJobs, ok \in BOOLEAN : RenderSvgDone(s, ok) /\ UNCHANGED libVars

SpecMode == AppSpecInit /\ [][ModeNext]_vars

\* no handler is waiting: no render in progress, no push polling for the
\* worker, the startup timer has fired
Quiescent == jobs = <<>> /\ pendingPushes = 0 /\ ~startupTimer

\* C38: in a quiescent state the typst pane is the visible one exactly when
\* the active preview file is a typst file
C38_ModeMatchesTarget ==
    Quiescent => (previewMode = "typst" <=> IsTypstPreview(projectFiles, activePreviewFileId))

-----------------------------------------------------------------------------
\* the step in which compile() or renderSvg() threw inside renderTypst
RenderThrew(e) ==
    \/ e.op = "compileDone" /\ e.r = "throw"
    \/ e.op = "renderDone" /\ ~e.ok

-----------------------------------------------------------------------------
\* C40: once the worker has handled the messages of a push, its entry for
\* preview.html is the page generated from the previewed file, whether or
\* not a project file has that name: the message for the reserved name is
\* the last one of each run
C40_ReservedEntryWins ==
    ev.op = "delivered" =>
        /\ ev.batch[Len(ev.batch)].fileName = PreviewHtml
        /\ PreviewHtml \in DOMAIN files
        /\ files[PreviewHtml] =
              PreviewDocument(
                  generatePreviewContent(projectFiles[activePreviewFileId].name,
                                         projectFiles[activePreviewFileId].content))

\* a push handled while another file than the previewed one is named
\* preview.html: the entry is not that file's content
C40_Witness ==
    /\ ev.op = "delivered"
    /\ \E id \in DOMAIN projectFiles :
          /\ projectFiles[id].name = PreviewHtml
          /\ id # activePreviewFileId
          /\ files[PreviewHtml] # RawDocument(projectFiles[id].content)

====
